---- MODULE Spec2Model ----
(***************************************************************************)
(* Namespaced key-value storage: the in-memory, SQLite and Postgres        *)
(* adapters of IKeyValueStorage over one shared map / one shared table.    *)
(* Strings are sequences of one-character strings.  Stored values are JSON *)
(* texts, produced by JSONstringify and read back by JSONparse.            *)
(***************************************************************************)
EXTENDS Integers, Sequences, FiniteSets, TLC

(***************************************************************************)
(* Bounds of the model.                                                    *)
(***************************************************************************)
\* longest batch (items or keys) handed to one call
MaxItems == 2
\* most entries the shared map / table holds at once
MaxEntries == 2
\* most writes a transactionFn makes on its handle
MaxWrites == 2
\* most items one iteration is followed for
MaxYields == 3
\* longest namespace or key the internal key derivation is applied to
MaxKeyLen == 2

Backends == {"memory", "sqlite", "postgres"}
Namespaces == {<<"g">>, <<"u">>}
Keys == {<<"a">>, <<"a", "b">>}
Patterns == {<<"a">>, <<"b">>, <<"_">>}

(***************************************************************************)
(* JavaScript values: number, string, boolean, null.                       *)
(***************************************************************************)
Num(n) == [type |-> "number", num |-> n, str |-> <<>>]
Str(s) == [type |-> "string", num |-> 0, str |-> s]
Bool(b) == [type |-> "boolean", num |-> IF b THEN 1 ELSE 0, str |-> <<>>]
Null == [type |-> "null", num |-> 0, str |-> <<>>]
\* what JSON.parse throws on a text that is not JSON
SyntaxError == [type |-> "SyntaxError", num |-> 0, str |-> <<>>]

Values == {Num(5), Num(10), Str(<<"a">>)}

\* ClampSettings {min?, max?}; given = FALSE is the omitted argument
NoSettings == [given |-> FALSE, hasMin |-> FALSE, min |-> 0, hasMax |-> FALSE, max |-> 0]
MinMax(hasMin, min, hasMax, max) ==
    [given |-> TRUE, hasMin |-> hasMin, min |-> min, hasMax |-> hasMax, max |-> max]
SettingsSet ==
    { NoSettings,
      MinMax(FALSE, 0, TRUE, 5), MinMax(TRUE, 10, FALSE, 0),
      MinMax(TRUE, 5, TRUE, 10), MinMax(TRUE, 10, TRUE, 5),
      MinMax(FALSE, 0, TRUE, 0), MinMax(TRUE, 0, FALSE, 0) }

(***************************************************************************)
(* Text helpers.                                                           *)
(***************************************************************************)
DigitChars == <<"0", "1", "2", "3", "4", "5", "6", "7", "8", "9">>
IsDigit(c) == \E d \in 1..10 : DigitChars[d] = c
DigitValue(c) == (CHOOSE d \in 1..10 : DigitChars[d] = c) - 1

RECURSIVE NatToString(_)
NatToString(n) ==
    IF n < 10 THEN <<DigitChars[n + 1]>>
    ELSE NatToString(n \div 10) \o <<DigitChars[(n % 10) + 1]>>

NumberToString(n) == IF n < 0 THEN <<"-">> \o NatToString(0 - n) ELSE NatToString(n)

RECURSIVE StringToNat(_)
StringToNat(s) ==
    IF Len(s) = 0 THEN 0
    ELSE 10 * StringToNat(SubSeq(s, 1, Len(s) - 1)) + DigitValue(s[Len(s)])

IsNatText(s) == Len(s) > 0 /\ \A i \in 1..Len(s) : IsDigit(s[i])
IsNumberText(s) ==
    \/ IsNatText(s)
    \/ Len(s) > 1 /\ s[1] = "-" /\ IsNatText(Tail(s))
StringToNumber(s) == IF s[1] = "-" THEN 0 - StringToNat(Tail(s)) ELSE StringToNat(s)

\* a JSON string literal: quotes around the text, '"' and '\' escaped
RECURSIVE Escape(_)
Escape(s) ==
    IF Len(s) = 0 THEN <<>>
    ELSE (IF s[1] = "\"" \/ s[1] = "\\" THEN <<"\\", s[1]>> ELSE <<s[1]>>)
         \o Escape(Tail(s))
\* a string literal written without escaping
Quote_withoutEscaping(s) == <<"\"">> \o s \o <<"\"">>
Quote(s) == <<"\"">> \o Escape(s) \o <<"\"">>

\* reads the string literal whose opening quote is at t[i]:
\* its text and the index after the closing quote
RECURSIVE ReadQuotedFrom(_, _, _)
ReadQuotedFrom(t, i, acc) ==
    IF i > Len(t) THEN [str |-> acc, next |-> i]
    ELSE IF t[i] = "\"" THEN [str |-> acc, next |-> i + 1]
    ELSE IF t[i] = "\\" /\ i < Len(t) THEN ReadQuotedFrom(t, i + 2, Append(acc, t[i + 1]))
    ELSE ReadQuotedFrom(t, i + 1, Append(acc, t[i]))
ReadQuoted(t, i) == ReadQuotedFrom(t, i + 1, <<>>)

IsStringText(s) ==
    /\ Len(s) >= 2
    /\ s[1] = "\""
    /\ ReadQuoted(s, 1).next = Len(s) + 1
    /\ s[Len(s)] = "\""

TrueText == <<"t", "r", "u", "e">>
FalseText == <<"f", "a", "l", "s", "e">>
NullText == <<"n", "u", "l", "l">>

JSONstringify(v) ==
    CASE v.type = "number" -> NumberToString(v.num)
      [] v.type = "string" -> Quote(v.str)
      [] v.type = "boolean" -> (IF v.num = 1 THEN TrueText ELSE FalseText)
      [] OTHER -> NullText

JSONparse(text) ==
    CASE IsNumberText(text) -> Num(StringToNumber(text))
      [] IsStringText(text) -> Str(ReadQuoted(text, 1).str)
      [] text = TrueText -> Bool(TRUE)
      [] text = FalseText -> Bool(FALSE)
      [] text = NullText -> Null
      [] OTHER -> SyntaxError

(***************************************************************************)
(* Records returned by the batch operations: a JavaScript object, here a   *)
(* function from property names to values.                                 *)
(***************************************************************************)
EmptyRecord == [k \in {} |-> FALSE]
SetProperty(record, key, value) ==
    [k \in (DOMAIN record) \cup {key} |-> IF k = key THEN value ELSE record[k]]
\* Object.fromEntries: a later entry of the same name wins
RECURSIVE ObjectFromEntries(_)
ObjectFromEntries(entries) ==
    IF Len(entries) = 0 THEN EmptyRecord
    ELSE LET last == entries[Len(entries)]
         IN SetProperty(ObjectFromEntries(SubSeq(entries, 1, Len(entries) - 1)),
                        last[1], last[2])

(***************************************************************************)
(* The shared Map<string, string> of the memory adapter, in insertion      *)
(* order: a sequence of <<internalKey, value>>.                            *)
(***************************************************************************)
MapHas(m, k) == \E i \in 1..Len(m) : m[i][1] = k
MapIndex(m, k) == CHOOSE i \in 1..Len(m) : m[i][1] = k
MapGet(m, k) ==
    IF MapHas(m, k) THEN [found |-> TRUE, value |-> m[MapIndex(m, k)][2]]
    ELSE [found |-> FALSE, value |-> <<>>]
\* a set that moves a key the Map holds to the end
MapSet_movesToEnd(m, k, v) == Append(SelectSeq(m, LAMBDA e : e[1] # k), <<k, v>>)
MapSet(m, k, v) ==
    IF MapHas(m, k) THEN [m EXCEPT ![MapIndex(m, k)] = <<k, v>>]
    ELSE Append(m, <<k, v>>)
MapDelete(m, k) == SelectSeq(m, LAMBDA e : e[1] # k)

KeyToken == "{\"key\":"
NamespaceToken == ",\"namespace\":"

serializeInternalKey(key, namespace) ==
    <<KeyToken>> \o Quote(key) \o <<NamespaceToken>> \o Quote(namespace) \o <<"}">>

deserializeInternalKey(internalKey) ==
    LET k == ReadQuoted(internalKey, 2)
        n == ReadQuoted(internalKey, k.next + 1)
    IN [key |-> k.str, namespace |-> n.str]

getInternal(m, key, namespace) ==
    LET value == MapGet(m, serializeInternalKey(key, namespace))
    IN IF value.found /\ value.value # <<>> THEN JSONparse(value.value) ELSE Null

hasInternal(m, key, namespace) == MapHas(m, serializeInternalKey(key, namespace))

removeInternal(m, key, namespace) ==
    [map |-> MapDelete(m, serializeInternalKey(key, namespace)),
     deleted |-> MapHas(m, serializeInternalKey(key, namespace))]

setInternal(m, key, namespace, value) ==
    MapSet(m, serializeInternalKey(key, namespace), JSONstringify(value))

\* clearInternal deleting every key it walks over, whatever its namespace
clearInternal_anyNamespace(m, namespace_) ==
    SelectSeq(m, LAMBDA e : FALSE)

clearInternal(m, namespace_) ==
    SelectSeq(m, LAMBDA e : deserializeInternalKey(e[1]).namespace # namespace_)

sizeInternal(m, namespace_) ==
    Len(SelectSeq(m, LAMBDA e : deserializeInternalKey(e[1]).namespace = namespace_))

\* settings given with a truthy bound
Truthy(has, n) == has /\ n # 0

clamp(value, settings) ==
    IF Truthy(settings.hasMax, settings.max) /\ value > settings.max THEN settings.max
    ELSE IF Truthy(settings.hasMin, settings.min) /\ value < settings.min THEN settings.min
    ELSE value

(***************************************************************************)
(* MemoryKeyValueStorage, bound to this_namespace over the shared map m.   *)
(* Each batch operation returns the map it leaves and the record it        *)
(* resolves to.                                                            *)
(***************************************************************************)
\* the iteration without the comparison of the namespace of the internal key
Memory_asyncIterator_anyNamespace(m, this_namespace) ==
    LET mine(e) ==
            LET ik == deserializeInternalKey(e[1])
            IN hasInternal(m, ik.key, ik.namespace)
        own == SelectSeq(m, mine)
    IN [i \in 1..Len(own) |->
            <<deserializeInternalKey(own[i][1]).key, JSONparse(own[i][2])>>]

Memory_asyncIterator(m, this_namespace) ==
    LET mine(e) ==
            LET ik == deserializeInternalKey(e[1])
            IN this_namespace = ik.namespace /\ hasInternal(m, ik.key, ik.namespace)
        own == SelectSeq(m, mine)
    IN [i \in 1..Len(own) |->
            <<deserializeInternalKey(own[i][1]).key, JSONparse(own[i][2])>>]

Memory_clear(m, this_namespace) == clearInternal(m, this_namespace)

Memory_size(m, this_namespace) == sizeInternal(m, this_namespace)

RECURSIVE Memory_getMany(_, _, _)
Memory_getMany(m, this_namespace, keys) ==
    IF Len(keys) = 0 THEN EmptyRecord
    ELSE LET key == keys[Len(keys)]
         IN SetProperty(Memory_getMany(m, this_namespace, SubSeq(keys, 1, Len(keys) - 1)),
                        key, getInternal(m, key, this_namespace))

StartsWith(key, keyPrefix) ==
    Len(keyPrefix) <= Len(key) /\ SubSeq(key, 1, Len(keyPrefix)) = keyPrefix
EndsWith(key, keySuffix) ==
    /\ Len(keySuffix) <= Len(key)
    /\ SubSeq(key, Len(key) - Len(keySuffix) + 1, Len(key)) = keySuffix
Includes(key_, key) ==
    \E i \in 1..(Len(key_) + 1) :
        i + Len(key) - 1 <= Len(key_) /\ SubSeq(key_, i, i + Len(key) - 1) = key

\* AsyncFilterIterable over the storage's own iteration
Memory_getStartsWithMany(m, this_namespace, keyPrefix) ==
    SelectSeq(Memory_asyncIterator(m, this_namespace), LAMBDA item : StartsWith(item[1], keyPrefix))
Memory_getEndsWithMany(m, this_namespace, keySuffix) ==
    SelectSeq(Memory_asyncIterator(m, this_namespace), LAMBDA item : EndsWith(item[1], keySuffix))
Memory_getIncludesMany(m, this_namespace, key) ==
    SelectSeq(Memory_asyncIterator(m, this_namespace), LAMBDA item : Includes(item[1], key))

\* the value a batch write stores: numbers are clamped when settings are given
Memory_clampValue(value, settings) ==
    IF settings.given /\ value.type = "number" THEN Num(clamp(value.num, settings))
    ELSE value

RECURSIVE Memory_insertIfNotExistsMany(_, _, _, _)
Memory_insertIfNotExistsMany(m, this_namespace, items, settings) ==
    IF Len(items) = 0 THEN [map |-> m, record |-> EmptyRecord]
    ELSE LET before == Memory_insertIfNotExistsMany(
                           m, this_namespace, SubSeq(items, 1, Len(items) - 1), settings)
             key == items[Len(items)][1]
             value == items[Len(items)][2]
             hasNotKey == ~hasInternal(before.map, key, this_namespace)
         IN [map |-> IF hasNotKey
                     THEN setInternal(before.map, key, this_namespace,
                                      Memory_clampValue(value, settings))
                     ELSE before.map,
             record |-> SetProperty(before.record, key, hasNotKey)]

RECURSIVE Memory_updateIfExistsMany(_, _, _, _)
Memory_updateIfExistsMany(m, this_namespace, items, settings) ==
    IF Len(items) = 0 THEN [map |-> m, record |-> EmptyRecord]
    ELSE LET before == Memory_updateIfExistsMany(
                           m, this_namespace, SubSeq(items, 1, Len(items) - 1), settings)
             key == items[Len(items)][1]
             value == items[Len(items)][2]
             hasKey == hasInternal(before.map, key, this_namespace)
         IN [map |-> IF hasKey
                     THEN setInternal(before.map, key, this_namespace,
                                      Memory_clampValue(value, settings))
                     ELSE before.map,
             record |-> SetProperty(before.record, key, hasKey)]

RECURSIVE Memory_removeIfExistsMany(_, _, _)
Memory_removeIfExistsMany(m, this_namespace, keys) ==
    IF Len(keys) = 0 THEN [map |-> m, record |-> EmptyRecord]
    ELSE LET before == Memory_removeIfExistsMany(
                           m, this_namespace, SubSeq(keys, 1, Len(keys) - 1))
             key == keys[Len(keys)]
             removed == removeInternal(before.map, key, this_namespace)
         IN [map |-> removed.map,
             record |-> SetProperty(before.record, key, removed.deleted)]

(***************************************************************************)
(* The key_value table of the SQL adapters: rows (namespace, key, value)   *)
(* in row order, primary key (key, namespace).                             *)
(***************************************************************************)
Row(namespace, key, value) == [namespace |-> namespace, key |-> key, value |-> value]
\* a conflict on the key alone, whatever the namespace of the row
RowExists_inAnyNamespace(t, namespace, key) ==
    \E i \in 1..Len(t) : t[i].key = key
RowExists(t, namespace, key) ==
    \E i \in 1..Len(t) : t[i].namespace = namespace /\ t[i].key = key
InSeq(x, s) == \E i \in 1..Len(s) : s[i] = x
Resolved(value) == [status |-> "resolved", value |-> value]
Rejected(error) == [status |-> "rejected", value |-> error]

\* a SQL value expression evaluates to a text, or the statement fails
SqlText(text) == [ok |-> TRUE, text |-> text]
SqlFailure == [ok |-> FALSE, text |-> <<>>]

\* select key, value from key_value where namespace = ?
SelectWhereNamespace(t, namespace) == SelectSeq(t, LAMBDA r : r.namespace = namespace)

\* delete from key_value where namespace = ?
DeleteWhereNamespace(t, namespace) == SelectSeq(t, LAMBDA r : r.namespace # namespace)

\* the LIKE operator: '%' matches any run of characters, '_' any one character
RECURSIVE Like(_, _)
Like(text, pattern) ==
    IF Len(pattern) = 0 THEN Len(text) = 0
    ELSE IF pattern[1] = "%"
         THEN \E i \in 0..Len(text) : Like(SubSeq(text, i + 1, Len(text)), Tail(pattern))
    ELSE /\ Len(text) > 0
         /\ (pattern[1] = "_" \/ pattern[1] = text[1])
         /\ Like(Tail(text), Tail(pattern))

\* select key, value from key_value where namespace = ? and key like ?
SelectWhereLike(t, namespace, likePattern) ==
    SelectSeq(t, LAMBDA r : r.namespace = namespace /\ Like(r.key, likePattern))

\* insert into key_value values ... on conflict (key, namespace) do nothing
\* returning key: the rows are taken in order, a row whose primary key is
\* already in the table (from before or from an earlier row) is skipped
RECURSIVE InsertOnConflictDoNothing(_, _)
InsertOnConflictDoNothing(t, rows) ==
    IF Len(rows) = 0 THEN [table |-> t, returning |-> <<>>]
    ELSE LET before == InsertOnConflictDoNothing(t, SubSeq(rows, 1, Len(rows) - 1))
             row == rows[Len(rows)]
         IN IF RowExists(before.table, row.namespace, row.key)
            THEN before
            ELSE [table |-> Append(before.table, row),
                  returning |-> Append(before.returning, row.key)]

\* case when key = k1 then v1 when key = k2 then v2 ... else '' end
RECURSIVE CaseKey(_, _)
CaseKey(cases, key) ==
    IF Len(cases) = 0 THEN <<>>
    ELSE IF cases[1][1] = key THEN cases[1][2]
    ELSE CaseKey(Tail(cases), key)

\* an update of every row of the namespace, without the key in (...) filter
UpdateWhereKeyIn_everyRow(t, namespace, keys, cases) ==
    LET hit(r) == r.namespace = namespace
        hits == SelectSeq(t, hit)
    IN [table |-> [i \in 1..Len(t) |->
                      IF hit(t[i]) THEN Row(t[i].namespace, t[i].key, CaseKey(cases, t[i].key))
                      ELSE t[i]],
        returning |-> [i \in 1..Len(hits) |-> hits[i].key]]
\* update key_value set value = case ... end
\* where namespace = ? and key in (...) returning key
UpdateWhereKeyIn(t, namespace, keys, cases) ==
    LET hit(r) == r.namespace = namespace /\ InSeq(r.key, keys)
        hits == SelectSeq(t, hit)
    IN [table |-> [i \in 1..Len(t) |->
                      IF hit(t[i]) THEN Row(t[i].namespace, t[i].key, CaseKey(cases, t[i].key))
                      ELSE t[i]],
        returning |-> [i \in 1..Len(hits) |-> hits[i].key]]

\* insert into key_value values ... on conflict (key, namespace) do update
\* set key = key, namespace = namespace, value = case ... end
RECURSIVE InsertOnConflictDoUpdate(_, _, _)
InsertOnConflictDoUpdate(t, rows, cases) ==
    IF Len(rows) = 0 THEN t
    ELSE LET before == InsertOnConflictDoUpdate(t, SubSeq(rows, 1, Len(rows) - 1), cases)
             row == rows[Len(rows)]
         IN IF RowExists(before, row.namespace, row.key)
            THEN [i \in 1..Len(before) |->
                     IF before[i].namespace = row.namespace /\ before[i].key = row.key
                     THEN Row(row.namespace, row.key, CaseKey(cases, row.key))
                     ELSE before[i]]
            ELSE Append(before, row)

\* delete from key_value where namespace = ? and key in (...) returning key
DeleteWhereKeyIn(t, namespace, keys) ==
    LET hit(r) == r.namespace = namespace /\ InSeq(r.key, keys)
        hits == SelectSeq(t, hit)
    IN [table |-> SelectSeq(t, LAMBDA r : ~hit(r)),
        returning |-> [i \in 1..Len(hits) |-> hits[i].key]]

(***************************************************************************)
(* The value expressions the adapters put into their statements.           *)
(***************************************************************************)
Min2(a, b) == IF a < b THEN a ELSE b
Max2(a, b) == IF a > b THEN a ELSE b

\* SqliteKeyValueStorage.sqlClamp on a SQL number: min(max(v, min), max)
Sqlite_sqlClamp(value, settings) ==
    IF Truthy(settings.hasMax, settings.max) /\ Truthy(settings.hasMin, settings.min)
    THEN Min2(Max2(value, settings.min), settings.max)
    ELSE IF Truthy(settings.hasMin, settings.min) THEN Max2(value, settings.min)
    ELSE IF Truthy(settings.hasMax, settings.max) THEN Min2(value, settings.max)
    ELSE value

\* SqliteKeyValueStorage.sqlClampJsonValue: json_type(json(?)) decides;
\* a number is taken out with ->> '$', clamped and json_quote'd
Sqlite_sqlClampJsonValue(jsonValue, settings) ==
    IF IsNumberText(jsonValue)
    THEN SqlText(NumberToString(Sqlite_sqlClamp(StringToNumber(jsonValue), settings)))
    ELSE SqlText(jsonValue)

\* code points, in increasing order, of the characters the texts are made of
AsciiOrder ==
    <<"\"", "%", "-", "/", "0", "1", "2", "3", "4", "5", "6", "7", "8", "9",
      "[", "\\", "]", "_", "a", "b", "e", "f", "l", "n", "r", "s", "t", "u", "{", "}">>
CharCode(c) == CHOOSE i \in 1..Len(AsciiOrder) : AsciiOrder[i] = c

\* text < text in Postgres, bytewise
RECURSIVE TextLess(_, _)
TextLess(a, b) ==
    IF Len(b) = 0 THEN FALSE
    ELSE IF Len(a) = 0 THEN TRUE
    ELSE IF a[1] = b[1] THEN TextLess(Tail(a), Tail(b))
    ELSE CharCode(a[1]) < CharCode(b[1])
Least(a, b) == IF TextLess(b, a) THEN b ELSE a
Greatest(a, b) == IF TextLess(a, b) THEN b ELSE a

\* PostgresKeyValueStorageInternal.sqlClamp: least(greatest(?, ?), ?) over
\* parameters of unknown type, which Postgres resolves to text; the bounds
\* reach the server as the decimal text of the number
Postgres_sqlClamp(value, settings) ==
    IF Truthy(settings.hasMax, settings.max) /\ Truthy(settings.hasMin, settings.min)
    THEN SqlText(Least(Greatest(value, NumberToString(settings.min)),
                       NumberToString(settings.max)))
    ELSE IF Truthy(settings.hasMin, settings.min)
    THEN SqlText(Greatest(value, NumberToString(settings.min)))
    ELSE IF Truthy(settings.hasMax, settings.max)
    THEN SqlText(Least(value, NumberToString(settings.max)))
    ELSE SqlText(value)

\* PostgresKeyValueStorageInternal.sqlClampJsonValue: the expression calls
\* json_type, json_quote and the operators == and ->> '$' of SQLite, none of
\* which Postgres has, so a statement that holds it is rejected
Postgres_sqlClampJsonValue(jsonValue, settings) == SqlFailure

AllOk(exprs) == \A i \in 1..Len(exprs) : exprs[i].ok

\* the catch block of every SQL method: an error of the driver is wrapped
(***************************************************************************)
(* Thrown values.  An error is its class name and its cause chain: the     *)
(* names of error.cause, error.cause.cause, ... (empty without a cause).   *)
(***************************************************************************)
JsError(name, cause) == [name |-> name, cause |-> cause]
\* the object literal { cause }
CauseOption(cause) == JsError("Object", <<cause.name>> \o cause.cause)
\* new Error(message, options): this.cause = options.cause
NewError(name, options) == JsError(name, options.cause)
\* constructor(message, cause) { super(message, { cause }) } of the base class
KeyValueStorageError(name, cause) == NewError(name, CauseOption(cause))
\* constructor(message, cause) { super(message, { cause }) } of the subclass:
\* the base class constructor is given the object { cause } as its cause
UnexpectedKeyValueStorageError(cause) ==
    KeyValueStorageError("UnexpectedKeyValueStorageError", CauseOption(cause))
\* error instanceof KeyValueStorageError
KeyValueStorageErrorNames ==
    {"KeyValueStorageError", "UnexpectedKeyValueStorageError",
     "KeysNotFoundKeyValueStorageError", "KeysAlreadyExistKeyValueStorageError",
     "TypeKeyValueStorageError"}
InstanceOfKeyValueStorageError(error) == error.name \in KeyValueStorageErrorNames
\* catch (error) { if (error instanceof KeyValueStorageError) throw error;
\*                 throw new UnexpectedKeyValueStorageError(..., error) }
CatchBlock(error) ==
    IF InstanceOfKeyValueStorageError(error) THEN error
    ELSE UnexpectedKeyValueStorageError(error)
\* what the driver throws when the engine rejects a statement
DatabaseError == JsError("DatabaseError", <<>>)

\* keys.map(key => [key, v]) followed by result.map(key => [key, w])
ReportEntries(keys, v, returning, w) ==
    [i \in 1..Len(keys) |-> <<keys[i], v>>] \o [i \in 1..Len(returning) |-> <<returning[i], w>>]

ItemKeys(items) == [i \in 1..Len(items) |-> items[i][1]]

(***************************************************************************)
(* Reads shared by SqliteKeyValueStorage and                               *)
(* PostgresKeyValueStorageInternal (the methods are the same text).        *)
(***************************************************************************)
Sql_asyncIterator(t, this_namespace) ==
    LET rows == SelectWhereNamespace(t, this_namespace)
    IN [i \in 1..Len(rows) |-> <<rows[i].key, JSONparse(rows[i].value)>>]

Sql_clear_leavesLastRow(t, this_namespace) ==
    IF Len(t) = 0 THEN t
    ELSE DeleteWhereNamespace(SubSeq(t, 1, Len(t) - 1), this_namespace) \o <<t[Len(t)]>>
Sql_clear(t, this_namespace) == DeleteWhereNamespace(t, this_namespace)

Sql_size(t, this_namespace) == Len(SelectWhereNamespace(t, this_namespace))

Sql_hasMany(t, this_namespace, keys) ==
    IF Len(keys) = 0 THEN EmptyRecord
    ELSE LET result == SelectWhereNamespace(t, this_namespace)
         IN ObjectFromEntries(
                [i \in 1..Len(keys) |-> <<keys[i], FALSE>>]
                \o [i \in 1..Len(result) |-> <<result[i].key, TRUE>>])

Sql_getMany_withoutShortcut(t, this_namespace, keys) ==
    LET result == SelectWhereNamespace(t, this_namespace)
    IN ObjectFromEntries(
           [i \in 1..Len(keys) |-> <<keys[i], Null>>]
           \o [i \in 1..Len(result) |-> <<result[i].key, JSONparse(result[i].value)>>])
Sql_getMany(t, this_namespace, keys) ==
    IF Len(keys) = 0 THEN EmptyRecord
    ELSE LET result == SelectWhereNamespace(t, this_namespace)
         IN ObjectFromEntries(
                [i \in 1..Len(keys) |-> <<keys[i], Null>>]
                \o [i \in 1..Len(result) |-> <<result[i].key, JSONparse(result[i].value)>>])

\* AsyncLikeIterable
Sql_AsyncLikeIterable(t, likePattern, namespace) ==
    LET rows == SelectWhereLike(t, namespace, likePattern)
    IN [i \in 1..Len(rows) |-> <<rows[i].key, JSONparse(rows[i].value)>>]

Sql_getStartsWithMany(t, this_namespace, keyPrefix) ==
    Sql_AsyncLikeIterable(t, keyPrefix \o <<"%">>, this_namespace)
Sql_getEndsWithMany(t, this_namespace, keySuffix) ==
    Sql_AsyncLikeIterable(t, <<"%">> \o keySuffix, this_namespace)
Sql_getIncludesMany(t, this_namespace, key) ==
    Sql_AsyncLikeIterable(t, <<"%">> \o key \o <<"%">>, this_namespace)

Sql_removeIfExistsMany(t, this_namespace, keys) ==
    IF Len(keys) = 0 THEN [table |-> t, ret |-> Resolved(EmptyRecord)]
    ELSE LET result == DeleteWhereKeyIn(t, this_namespace, keys)
         IN [table |-> result.table,
             ret |-> Resolved(ObjectFromEntries(
                        ReportEntries(keys, FALSE, result.returning, TRUE)))]

(***************************************************************************)
(* Batch writes of the SQL adapters.  exprs are the value expressions of   *)
(* the items, in order, as the adapter built them.                         *)
(***************************************************************************)
Sql_insertIfNotExists_reportsEveryKey(t, this_namespace, items, exprs) ==
    IF Len(items) = 0 THEN [table |-> t, ret |-> Resolved(EmptyRecord)]
    ELSE LET insertValues ==
                 [i \in 1..Len(items) |-> Row(this_namespace, items[i][1], exprs[i].text)]
             result == InsertOnConflictDoNothing(t, insertValues)
         IN [table |-> result.table,
             ret |-> Resolved(ObjectFromEntries(
                        ReportEntries(ItemKeys(items), TRUE, result.returning, TRUE)))]

Sql_insertIfNotExists(t, this_namespace, items, exprs) ==
    IF Len(items) = 0 THEN [table |-> t, ret |-> Resolved(EmptyRecord)]
    ELSE IF ~AllOk(exprs) THEN [table |-> t, ret |-> Rejected(CatchBlock(DatabaseError))]
    ELSE LET insertValues ==
                 [i \in 1..Len(items) |-> Row(this_namespace, items[i][1], exprs[i].text)]
             result == InsertOnConflictDoNothing(t, insertValues)
         IN [table |-> result.table,
             ret |-> Resolved(ObjectFromEntries(
                        ReportEntries(ItemKeys(items), FALSE, result.returning, TRUE)))]

Sql_updateIfExists(t, this_namespace, updateValues, exprs) ==
    IF Len(updateValues) = 0 THEN [table |-> t, ret |-> Resolved(EmptyRecord)]
    ELSE IF ~AllOk(exprs) THEN [table |-> t, ret |-> Rejected(CatchBlock(DatabaseError))]
    ELSE LET keys == ItemKeys(updateValues)
             cases == [i \in 1..Len(updateValues) |-> <<updateValues[i][1], exprs[i].text>>]
             result == UpdateWhereKeyIn(t, this_namespace, keys, cases)
         IN [table |-> result.table,
             ret |-> Resolved(ObjectFromEntries(
                        ReportEntries(keys, FALSE, result.returning, TRUE)))]

Undefined == "undefined"

Sql_insertOrUpdate(t, this_namespace, items, insertExprs, updateExprs) ==
    IF Len(items) = 0 THEN [table |-> t, ret |-> Resolved(Undefined)]
    ELSE IF ~(AllOk(insertExprs) /\ AllOk(updateExprs))
         THEN [table |-> t, ret |-> Rejected(CatchBlock(DatabaseError))]
    ELSE LET insertValues ==
                 [i \in 1..Len(items) |-> Row(this_namespace, items[i][1], insertExprs[i].text)]
             cases == [i \in 1..Len(items) |-> <<items[i][1], updateExprs[i].text>>]
         IN [table |-> InsertOnConflictDoUpdate(t, insertValues, cases),
             ret |-> Resolved(Undefined)]

Sqlite_insertIfNotExistsMany(t, this_namespace, items, settings) ==
    Sql_insertIfNotExists(t, this_namespace, items,
        [i \in 1..Len(items) |->
            Sqlite_sqlClampJsonValue(JSONstringify(items[i][2]), settings)])

Sqlite_updateIfExistsMany(t, this_namespace, updateValues, settings) ==
    Sql_updateIfExists(t, this_namespace, updateValues,
        [i \in 1..Len(updateValues) |->
            Sqlite_sqlClampJsonValue(JSONstringify(updateValues[i][2]), settings)])

Sqlite_insertOrUpdateMany(t, this_namespace, items, settings) ==
    Sql_insertOrUpdate(t, this_namespace, items,
        [i \in 1..Len(items) |->
            Sqlite_sqlClampJsonValue(JSONstringify(items[i][2].insertValue), settings)],
        [i \in 1..Len(items) |->
            Sqlite_sqlClampJsonValue(JSONstringify(items[i][2].updateValue), settings)])

Postgres_insertIfNotExistsMany(t, this_namespace, items, settings) ==
    Sql_insertIfNotExists(t, this_namespace, items,
        [i \in 1..Len(items) |-> Postgres_sqlClamp(JSONstringify(items[i][2]), settings)])

Postgres_updateIfExistsMany(t, this_namespace, updateValues, settings) ==
    Sql_updateIfExists(t, this_namespace, updateValues,
        [i \in 1..Len(updateValues) |->
            Postgres_sqlClampJsonValue(JSONstringify(updateValues[i][2]), settings)])

Postgres_insertOrUpdateMany(t, this_namespace, items, settings) ==
    Sql_insertOrUpdate(t, this_namespace, items,
        [i \in 1..Len(items) |->
            Postgres_sqlClampJsonValue(JSONstringify(items[i][2].insertValue), settings)],
        [i \in 1..Len(items) |->
            Postgres_sqlClampJsonValue(JSONstringify(items[i][2].updateValue), settings)])

(***************************************************************************)
(* State: the adapter in use, the shared map (memory adapter) or the       *)
(* key_value table (SQL adapters), and the promise of the caller: the call *)
(* made through a storage instance, the store as the call found it, and    *)
(* what the promise settled to.  A caller awaits one call at a time.       *)
(***************************************************************************)
VARIABLES backend, map, table, call, fn, prev, ret, cursor, queries, seen, stream, history

vars == <<backend, map, table, call, fn, prev, ret, cursor, queries, seen, stream, history>>

SeqsOfLen(S, lens) == UNION {[1..len -> S] : len \in lens}
KeyLists == SeqsOfLen(Keys, 0..MaxItems)
\* the values of the items of a batch of several items
BatchValues == {Num(5), Str(<<"a">>)}
\* insertIfNotExistsMany / updateIfExistsMany: no item, one item of any value
\* under any settings, or several items without settings (two items of either
\* value, more items of the number)
ItemCalls ==
    (SeqsOfLen(Keys \X Values, 0..1) \X SettingsSet)
    \cup (SeqsOfLen(Keys \X BatchValues, {n \in 2..MaxItems : n = 2}) \X {NoSettings})
    \cup (SeqsOfLen(Keys \X {Num(5)}, {n \in 2..MaxItems : n > 2}) \X {NoSettings})
InsertOrUpdateValues ==
    { [insertValue |-> Num(5), updateValue |-> Num(10)],
      [insertValue |-> Num(10), updateValue |-> Str(<<"a">>)],
      [insertValue |-> Str(<<"a">>), updateValue |-> Num(5)] }
BatchInsertOrUpdateValues ==
    { [insertValue |-> Num(5), updateValue |-> Str(<<"a">>)],
      [insertValue |-> Str(<<"a">>), updateValue |-> Num(10)] }
\* insertOrUpdateMany: likewise
InsertOrUpdateCalls ==
    (SeqsOfLen(Keys \X InsertOrUpdateValues, 0..1) \X SettingsSet)
    \cup (SeqsOfLen(Keys \X BatchInsertOrUpdateValues, {n \in 2..MaxItems : n = 2})
            \X {NoSettings})
    \cup (SeqsOfLen(Keys \X {[insertValue |-> Num(5), updateValue |-> Str(<<"a">>)]},
                    {n \in 2..MaxItems : n > 2}) \X {NoSettings})

Call(op, namespace, keys, items, pattern, settings) ==
    [op |-> op, namespace |-> namespace, keys |-> keys, items |-> items,
     pattern |-> pattern, settings |-> settings]
Idle == Call("idle", <<>>, <<>>, <<>>, <<>>, NoSettings)

\* the transactionFn of a call of transaction: its writes, the keys of the
\* getMany it returns, whether it throws instead of returning
TransactionFn(writes, keys, throws) == [writes |-> writes, keys |-> keys, throws |-> throws]
NoFn == TransactionFn(<<>>, <<>>, FALSE)
\* what a second caller has read while the call is in flight: nothing yet
NotSeen == [call |-> Idle, value |-> <<>>]
\* the writes a transactionFn makes on its handle (bound by the handle)
TransactionWrites ==
    { Call("insertIfNotExistsMany", <<>>, <<>>, << <<(<<"a">>), Num(5)>> >>, <<>>, NoSettings),
      Call("updateIfExistsMany", <<>>, <<>>, << <<(<<"a">>), Num(10)>> >>, <<>>, NoSettings),
      Call("removeIfExistsMany", <<>>, << <<"a">> >>, <<>>, <<>>, NoSettings) }
TransactionFns ==
    { TransactionFn(writes, << <<"a">> >>, throws) :
        writes \in SeqsOfLen(TransactionWrites, 0..MaxWrites), throws \in BOOLEAN }

Init ==
    /\ backend \in Backends
    /\ map = <<>>
    /\ table = <<>>
    /\ call = Idle
    /\ fn = NoFn
    /\ prev = <<>>
    /\ ret = Resolved(Undefined)
    /\ cursor = 0
    /\ queries = 0
    /\ seen = NotSeen
    /\ stream = "none"
    /\ history = <<>>

\* the store the adapter in use works on
Store == IF backend = "memory" THEN map ELSE table

\* what a read of the adapter b resolves to on the store st
ReadResult(b, st, c) ==
    CASE c.op = "asyncIterator" ->
            (IF b = "memory" THEN Memory_asyncIterator(st, c.namespace)
             ELSE Sql_asyncIterator(st, c.namespace))
      [] c.op = "size" ->
            (IF b = "memory" THEN Memory_size(st, c.namespace)
             ELSE Sql_size(st, c.namespace))
      [] c.op = "hasMany" -> Sql_hasMany(st, c.namespace, c.keys)
      [] c.op = "getMany" ->
            (IF b = "memory" THEN Memory_getMany(st, c.namespace, c.keys)
             ELSE Sql_getMany(st, c.namespace, c.keys))
      [] c.op = "getStartsWithMany" ->
            (IF b = "memory" THEN Memory_getStartsWithMany(st, c.namespace, c.pattern)
             ELSE Sql_getStartsWithMany(st, c.namespace, c.pattern))
      [] c.op = "getEndsWithMany" ->
            (IF b = "memory" THEN Memory_getEndsWithMany(st, c.namespace, c.pattern)
             ELSE Sql_getEndsWithMany(st, c.namespace, c.pattern))
      [] c.op = "getIncludesMany" ->
            (IF b = "memory" THEN Memory_getIncludesMany(st, c.namespace, c.pattern)
             ELSE Sql_getIncludesMany(st, c.namespace, c.pattern))

\* the statements a call sends to the database (execute, executeTakeFirst,
\* stream): none on the memory adapter, none when a method returns before
\* its statement because it was given no keys or items, one otherwise
Executed(b, c) ==
    IF b = "memory" THEN 0
    ELSE CASE c.op \in {"hasMany", "getMany", "removeIfExistsMany"} ->
                (IF Len(c.keys) = 0 THEN 0 ELSE 1)
           [] c.op \in {"insertIfNotExistsMany", "updateIfExistsMany", "insertOrUpdateMany"} ->
                (IF Len(c.items) = 0 THEN 0 ELSE 1)
           [] OTHER -> 1

\* the store and the settled promise a write call c leaves when it is made
\* on the store st of the adapter b
WriteResult(b, st, c) ==
    CASE c.op = "clear" ->
            [store |-> IF b = "memory" THEN Memory_clear(st, c.namespace)
                       ELSE Sql_clear(st, c.namespace),
             ret |-> Resolved(Undefined)]
      [] c.op = "insertIfNotExistsMany" ->
            (CASE b = "memory" ->
                    LET r == Memory_insertIfNotExistsMany(st, c.namespace, c.items, c.settings)
                    IN [store |-> r.map, ret |-> Resolved(r.record)]
               [] b = "sqlite" ->
                    LET r == Sqlite_insertIfNotExistsMany(st, c.namespace, c.items, c.settings)
                    IN [store |-> r.table, ret |-> r.ret]
               [] b = "postgres" ->
                    LET r == Postgres_insertIfNotExistsMany(st, c.namespace, c.items, c.settings)
                    IN [store |-> r.table, ret |-> r.ret])
      [] c.op = "updateIfExistsMany" ->
            (CASE b = "memory" ->
                    LET r == Memory_updateIfExistsMany(st, c.namespace, c.items, c.settings)
                    IN [store |-> r.map, ret |-> Resolved(r.record)]
               [] b = "sqlite" ->
                    LET r == Sqlite_updateIfExistsMany(st, c.namespace, c.items, c.settings)
                    IN [store |-> r.table, ret |-> r.ret]
               [] b = "postgres" ->
                    LET r == Postgres_updateIfExistsMany(st, c.namespace, c.items, c.settings)
                    IN [store |-> r.table, ret |-> r.ret])
      [] c.op = "insertOrUpdateMany" ->
            (LET r == IF b = "sqlite"
                      THEN Sqlite_insertOrUpdateMany(st, c.namespace, c.items, c.settings)
                      ELSE Postgres_insertOrUpdateMany(st, c.namespace, c.items, c.settings)
             IN [store |-> r.table, ret |-> r.ret])
      [] c.op = "removeIfExistsMany" ->
            (IF b = "memory"
             THEN LET r == Memory_removeIfExistsMany(st, c.namespace, c.keys)
                  IN [store |-> r.map, ret |-> Resolved(r.record)]
             ELSE LET r == Sql_removeIfExistsMany(st, c.namespace, c.keys)
                  IN [store |-> r.table, ret |-> r.ret])

(***************************************************************************)
(* transaction(transactionFn) of the SQL adapters.  A transactionFn of the *)
(* model awaits a list of writes on the handle it is given, one after the  *)
(* other, and then either returns what getMany(keys) of the handle gives   *)
(* or throws an error of its own; a write that rejects rejects the         *)
(* function.                                                               *)
(***************************************************************************)
\* new SqliteKeyValueStorage(trx, this.namespace): the namespace of the handle
TransactionHandle_otherNamespace(this_namespace) ==
    CHOOSE namespace \in Namespaces : namespace # this_namespace
TransactionHandle(this_namespace) == this_namespace

\* the outcome of a write with the statements sent so far
Sent(written, statements) ==
    [store |-> written.store, ret |-> written.ret, queries |-> statements]
\* one awaited write c of transactionFn, after the writes that left before:
\* a write that has rejected has rejected the function
AwaitWrite(b, before, c) ==
    IF before.ret.status = "rejected" THEN before
    ELSE Sent(WriteResult(b, before.store, c), before.queries + Executed(b, c))

\* the writes of transactionFn on the handle, from the store trx on
RECURSIVE AwaitWrites(_, _, _, _)
AwaitWrites(b, trx, namespace, writes) ==
    IF Len(writes) = 0 THEN [store |-> trx, ret |-> Resolved(Undefined), queries |-> 0]
    ELSE AwaitWrite(b, AwaitWrites(b, trx, namespace, SubSeq(writes, 1, Len(writes) - 1)),
                    [writes[Len(writes)] EXCEPT !.namespace = namespace])

\* what transactionFn does after its writes: it throws, or returns getMany(keys)
ReturnAfter(b, written, namespace, transactionFn) ==
    IF written.ret.status = "rejected" THEN written
    ELSE IF transactionFn.throws
         THEN [written EXCEPT !.ret = Rejected(JsError("Error", <<>>))]
    ELSE [written EXCEPT
            !.ret = Resolved(ReadResult(b, written.store,
                        Call("getMany", namespace, transactionFn.keys, <<>>, <<>>, NoSettings))),
            !.queries = @ + Executed(b,
                        Call("getMany", namespace, transactionFn.keys, <<>>, <<>>, NoSettings))]

\* transactionFn(handle): the store it leaves in the transaction and the
\* promise it returns
RunTransactionFn(b, trx, namespace, transactionFn) ==
    ReturnAfter(b, AwaitWrites(b, trx, namespace, transactionFn.writes), namespace, transactionFn)

\* the transaction keeping what the function wrote, however it settles
Commit(t, run) ==
    [table |-> run.store, ret |-> run.ret, queries |-> run.queries + 2]
\* commit when the function resolves, roll back and throw its error again
\* when it rejects
CommitOrRollback(t, run) ==
    [table |-> IF run.ret.status = "resolved" THEN run.store ELSE t,
     ret |-> run.ret, queries |-> run.queries + 2]

\* db.transaction().execute(trx => transactionFn(handle))
Sql_transaction_keepsWrites(b, t, this_namespace, transactionFn) ==
    Commit(t, RunTransactionFn(b, t, TransactionHandle(this_namespace), transactionFn))
Sql_transaction(b, t, this_namespace, transactionFn) ==
    CommitOrRollback(t, RunTransactionFn(b, t, TransactionHandle(this_namespace), transactionFn))

\* a read that leaves an entry with null behind for every key it misses
Read_insertsMissingKeys(c) ==
    /\ call' = c
    /\ fn' = NoFn
    /\ prev' = Store
    /\ ret' = Resolved(ReadResult(backend, Store, c))
    /\ queries' = Executed(backend, c)
    /\ map' = IF backend = "memory" /\ c.op = "getMany"
              THEN Memory_insertIfNotExistsMany(map, c.namespace,
                        [i \in 1..Len(c.keys) |-> <<c.keys[i], Null>>], NoSettings).map
              ELSE map
    /\ UNCHANGED <<backend, table, cursor, seen, stream, history>>

\* a read: the stores stay, the promise resolves to what the adapter reads
Read(c) ==
    /\ call' = c
    /\ fn' = NoFn
    /\ prev' = Store
    /\ ret' = Resolved(ReadResult(backend, Store, c))
    /\ queries' = Executed(backend, c)
    /\ UNCHANGED <<backend, map, table, cursor, seen, stream, history>>

\* a write of the memory adapter
MemoryWrite(c, m, r) ==
    /\ Len(m) <= MaxEntries
    /\ map' = m
    /\ call' = c
    /\ fn' = NoFn
    /\ prev' = map
    /\ ret' = r
    /\ queries' = Executed(backend, c)
    /\ UNCHANGED <<backend, table, cursor, seen, stream, history>>

\* a write of a SQL adapter
SqlWrite(c, t, r) ==
    /\ Len(t) <= MaxEntries
    /\ table' = t
    /\ call' = c
    /\ fn' = NoFn
    /\ prev' = table
    /\ ret' = r
    /\ queries' = Executed(backend, c)
    /\ UNCHANGED <<backend, map, cursor, seen, stream, history>>

\* the awaiting caller takes the settled value and is free to call again
await ==
    /\ call # Idle
    /\ call' = Idle
    /\ fn' = NoFn
    /\ prev' = <<>>
    /\ ret' = Resolved(Undefined)
    /\ queries' = 0
    /\ UNCHANGED <<backend, map, table, cursor, seen, stream, history>>

asyncIterator ==
    /\ call = Idle
    /\ \E namespace \in Namespaces :
            Read(Call("asyncIterator", namespace, <<>>, <<>>, <<>>, NoSettings))

clear ==
    /\ call = Idle
    /\ \E namespace \in Namespaces :
            LET c == Call("clear", namespace, <<>>, <<>>, <<>>, NoSettings)
            IN IF backend = "memory"
               THEN MemoryWrite(c, Memory_clear(map, namespace), Resolved(Undefined))
               ELSE SqlWrite(c, Sql_clear(table, namespace), Resolved(Undefined))

size ==
    /\ call = Idle
    /\ \E namespace \in Namespaces :
            Read(Call("size", namespace, <<>>, <<>>, <<>>, NoSettings))

\* MemoryKeyValueStorage has no hasMany
hasMany ==
    /\ call = Idle
    /\ backend # "memory"
    /\ \E namespace \in Namespaces, keys \in KeyLists :
            Read(Call("hasMany", namespace, keys, <<>>, <<>>, NoSettings))

getMany ==
    /\ call = Idle
    /\ \E namespace \in Namespaces, keys \in KeyLists :
            Read(Call("getMany", namespace, keys, <<>>, <<>>, NoSettings))

getStartsWithMany ==
    /\ call = Idle
    /\ \E namespace \in Namespaces, keyPrefix \in Patterns :
            Read(Call("getStartsWithMany", namespace, <<>>, <<>>, keyPrefix, NoSettings))

getEndsWithMany ==
    /\ call = Idle
    /\ \E namespace \in Namespaces, keySuffix \in Patterns :
            Read(Call("getEndsWithMany", namespace, <<>>, <<>>, keySuffix, NoSettings))

getIncludesMany ==
    /\ call = Idle
    /\ \E namespace \in Namespaces, key \in Patterns :
            Read(Call("getIncludesMany", namespace, <<>>, <<>>, key, NoSettings))

insertIfNotExistsMany ==
    /\ call = Idle
    /\ \E namespace \in Namespaces, in \in ItemCalls :
            LET items == in[1]
                settings == in[2]
                c == Call("insertIfNotExistsMany", namespace, <<>>, items, <<>>, settings)
            IN CASE backend = "memory" ->
                      LET r == Memory_insertIfNotExistsMany(map, namespace, items, settings)
                      IN MemoryWrite(c, r.map, Resolved(r.record))
                 [] backend = "sqlite" ->
                      LET r == Sqlite_insertIfNotExistsMany(table, namespace, items, settings)
                      IN SqlWrite(c, r.table, r.ret)
                 [] backend = "postgres" ->
                      LET r == Postgres_insertIfNotExistsMany(table, namespace, items, settings)
                      IN SqlWrite(c, r.table, r.ret)

updateIfExistsMany ==
    /\ call = Idle
    /\ \E namespace \in Namespaces, in \in ItemCalls :
            LET items == in[1]
                settings == in[2]
                c == Call("updateIfExistsMany", namespace, <<>>, items, <<>>, settings)
            IN CASE backend = "memory" ->
                      LET r == Memory_updateIfExistsMany(map, namespace, items, settings)
                      IN MemoryWrite(c, r.map, Resolved(r.record))
                 [] backend = "sqlite" ->
                      LET r == Sqlite_updateIfExistsMany(table, namespace, items, settings)
                      IN SqlWrite(c, r.table, r.ret)
                 [] backend = "postgres" ->
                      LET r == Postgres_updateIfExistsMany(table, namespace, items, settings)
                      IN SqlWrite(c, r.table, r.ret)

\* MemoryKeyValueStorage has no insertOrUpdateMany
insertOrUpdateMany ==
    /\ call = Idle
    /\ backend # "memory"
    /\ \E namespace \in Namespaces, in \in InsertOrUpdateCalls :
        LET items == in[1]
            settings == in[2]
            c == Call("insertOrUpdateMany", namespace, <<>>, items, <<>>, settings)
            r == IF backend = "sqlite"
                 THEN Sqlite_insertOrUpdateMany(table, namespace, items, settings)
                 ELSE Postgres_insertOrUpdateMany(table, namespace, items, settings)
        IN SqlWrite(c, r.table, r.ret)

removeIfExistsMany ==
    /\ call = Idle
    /\ \E namespace \in Namespaces, keys \in KeyLists :
            LET c == Call("removeIfExistsMany", namespace, keys, <<>>, <<>>, NoSettings)
            IN IF backend = "memory"
               THEN LET r == Memory_removeIfExistsMany(map, namespace, keys)
                    IN MemoryWrite(c, r.map, Resolved(r.record))
               ELSE LET r == Sql_removeIfExistsMany(table, namespace, keys)
                    IN SqlWrite(c, r.table, r.ret)

\* MemoryKeyValueStorage has no transaction
transaction ==
    /\ call = Idle
    /\ backend # "memory"
    /\ \E namespace \in Namespaces, transactionFn \in TransactionFns :
        LET r == Sql_transaction(backend, table, namespace, transactionFn)
        IN /\ Len(r.table) <= MaxEntries
           /\ table' = r.table
           /\ call' = Call("transaction", namespace, <<>>, <<>>, <<>>, NoSettings)
           /\ fn' = transactionFn
           /\ prev' = table
           /\ ret' = r.ret
           /\ queries' = r.queries
           /\ UNCHANGED <<backend, map, cursor, seen, stream, history>>

Next ==
    \/ asyncIterator
    \/ clear
    \/ size
    \/ hasMany
    \/ getMany
    \/ getStartsWithMany
    \/ getEndsWithMany
    \/ getIncludesMany
    \/ insertIfNotExistsMany
    \/ updateIfExistsMany
    \/ insertOrUpdateMany
    \/ removeIfExistsMany
    \/ transaction
    \/ await

Spec == Init /\ [][Next]_vars

(***************************************************************************)
(* Views of a store used to state the properties: the entries of one       *)
(* namespace, the entries of the others, the value text kept for a key.    *)
(***************************************************************************)
EntryNamespace(b, e) ==
    IF b = "memory" THEN deserializeInternalKey(e[1]).namespace ELSE e.namespace
EntryKey(b, e) == IF b = "memory" THEN deserializeInternalKey(e[1]).key ELSE e.key
EntryValue(b, e) == IF b = "memory" THEN e[2] ELSE e.value
OwnEntries(b, st, namespace) == SelectSeq(st, LAMBDA e : EntryNamespace(b, e) = namespace)
OtherEntries(b, st, namespace) == SelectSeq(st, LAMBDA e : EntryNamespace(b, e) # namespace)
\* the value texts kept under (namespace, key): empty when the key is absent
Stored(b, st, namespace, key) ==
    {EntryValue(b, st[i]) : i \in {j \in 1..Len(st) :
        EntryNamespace(b, st[j]) = namespace /\ EntryKey(b, st[j]) = key}}
Present(b, st, namespace, key) == Stored(b, st, namespace, key) # {}
KeysOf(b, st, namespace) ==
    {EntryKey(b, st[i]) : i \in {j \in 1..Len(st) : EntryNamespace(b, st[j]) = namespace}}
Range(s) == {s[i] : i \in 1..Len(s)}

MutatingOps ==
    {"clear", "insertIfNotExistsMany", "updateIfExistsMany", "insertOrUpdateMany",
     "removeIfExistsMany"}
ReadOps ==
    {"asyncIterator", "size", "hasMany", "getMany", "getStartsWithMany",
     "getEndsWithMany", "getIncludesMany"}

\* C1: a mutating operation made through an instance bound to one namespace
\* leaves the entries of every other namespace of the shared map / table as
\* they were, on the memory, SQLite and Postgres adapters.
C1_OtherNamespacesUnchanged ==
    call.op \in MutatingOps =>
        OtherEntries(backend, Store, call.namespace)
            = OtherEntries(backend, prev, call.namespace)

\* a clear emptied a namespace while another namespace held entries
C1_Witness ==
    /\ call.op = "clear"
    /\ Store # prev
    /\ OtherEntries(backend, Store, call.namespace) # <<>>

\* C2: what a read on an instance bound to a namespace returns is what the
\* same read returns on the store without the entries of the other
\* namespaces, so two stores that agree on the namespace give the same result
\* and nothing of another namespace is returned.
C2_ReadsIgnoreOtherNamespaces ==
    call.op \in ReadOps =>
        ret.value = ReadResult(backend, OwnEntries(backend, prev, call.namespace), call)

\* a scan of a namespace with an entry found it while another namespace held one
C2_Witness ==
    /\ call.op = "getStartsWithMany"
    /\ ret.value # <<>>
    /\ OtherEntries(backend, prev, call.namespace) # <<>>

(***************************************************************************)
(* The clamp rule as the contract states it: the floor first, then the     *)
(* ceiling, each bound applied when it is given; numbers only.             *)
(***************************************************************************)
ClampRule(n, settings) ==
    LET floored == IF settings.hasMin THEN Max2(n, settings.min) ELSE n
    IN IF settings.hasMax THEN Min2(floored, settings.max) ELSE floored
Clamped(value, settings) ==
    IF value.type = "number" THEN Num(ClampRule(value.num, settings)) ELSE value

CallKeys == Range(ItemKeys(call.items))
PresentBefore(key) == Present(backend, prev, call.namespace, key)
PresentAfter(key) == Present(backend, Store, call.namespace, key)
StoredBefore(key) == Stored(backend, prev, call.namespace, key)
StoredAfter(key) == Stored(backend, Store, call.namespace, key)
\* the entries of a store that a call on keys of the bound namespace does not name
NotNamed(st, keys) ==
    SelectSeq(st, LAMBDA e :
        ~(EntryNamespace(backend, e) = call.namespace /\ EntryKey(backend, e) \in keys))

\* C3: insertIfNotExistsMany maps every input key (also one named more than
\* once) to true exactly when the key was absent before the call, and then it
\* is inserted; to false when it existed, and then its value is unchanged.
C3_InsertReportsAbsence ==
    call.op = "insertIfNotExistsMany" =>
        /\ ret.status = "resolved"
        /\ DOMAIN ret.value = CallKeys
        /\ \A key \in CallKeys :
              /\ ret.value[key] = ~PresentBefore(key)
              /\ PresentAfter(key)
              /\ PresentBefore(key) => StoredAfter(key) = StoredBefore(key)

\* C4: updateIfExistsMany maps an absent key to false and leaves it absent,
\* maps a present key to true and stores the clamped supplied value for it,
\* and the keys of the namespace are the same before and after.
C4_UpdateNeverCreates ==
    call.op = "updateIfExistsMany" =>
        /\ ret.status = "resolved"
        /\ DOMAIN ret.value = CallKeys
        /\ \A key \in CallKeys :
              IF PresentBefore(key)
              THEN /\ ret.value[key] = TRUE
                   /\ \E i \in 1..Len(call.items) :
                         /\ call.items[i][1] = key
                         /\ StoredAfter(key)
                              = {JSONstringify(Clamped(call.items[i][2], call.settings))}
              ELSE /\ ret.value[key] = FALSE
                   /\ ~PresentAfter(key)
        /\ KeysOf(backend, Store, call.namespace) = KeysOf(backend, prev, call.namespace)

\* C5: removeIfExistsMany maps every input key (also one named more than
\* once) to true exactly when it was present before the call; afterwards no
\* input key is present and the entries it does not name are unchanged.
C5_RemoveReportsPresence ==
    call.op = "removeIfExistsMany" =>
        /\ ret.status = "resolved"
        /\ DOMAIN ret.value = Range(call.keys)
        /\ \A key \in Range(call.keys) :
              /\ ret.value[key] = PresentBefore(key)
              /\ ~PresentAfter(key)
        /\ NotNamed(Store, Range(call.keys)) = NotNamed(prev, Range(call.keys))

\* C6: getMany returns exactly the requested keys, each with its stored value
\* or null, and hasMany exactly the requested keys, each with true iff the key
\* exists; a key that was not requested is not in the result.
C6_ExactlyRequestedKeys ==
    /\ call.op = "getMany" =>
          /\ DOMAIN ret.value = Range(call.keys)
          /\ \A key \in Range(call.keys) :
                ret.value[key] = IF PresentBefore(key)
                                 THEN JSONparse(CHOOSE text \in StoredBefore(key) : TRUE)
                                 ELSE Null
    /\ call.op = "hasMany" =>
          /\ DOMAIN ret.value = Range(call.keys)
          /\ \A key \in Range(call.keys) : ret.value[key] = PresentBefore(key)

\* the value the call writes for its item i, if it writes one: the inserted
\* value when the key was absent, the updating value when it was present
Written(i) ==
    LET item == call.items[i]
    IN CASE call.op = "insertIfNotExistsMany" ->
                [writes |-> ~PresentBefore(item[1]), value |-> item[2]]
         [] call.op = "updateIfExistsMany" ->
                [writes |-> PresentBefore(item[1]), value |-> item[2]]
         [] call.op = "insertOrUpdateMany" ->
                [writes |-> TRUE,
                 value |-> IF PresentBefore(item[1])
                           THEN item[2].updateValue ELSE item[2].insertValue]
\* a call that resolved stored for every numeric item it writes the value the
\* clamp rule gives
NumbersClampedByRule ==
    ret.status = "resolved" =>
        \A i \in 1..Len(call.items) :
            (Written(i).writes /\ Written(i).value.type = "number") =>
                StoredAfter(call.items[i][1])
                    = {NumberToString(ClampRule(Written(i).value.num, call.settings))}

\* C7: with both min and max given, the number insertIfNotExistsMany /
\* updateIfExistsMany writes is min(max(value, min), max); when min > max it
\* is max.
C7_BothBoundsFloorThenCeiling ==
    ( /\ call.op \in {"insertIfNotExistsMany", "updateIfExistsMany"}
      /\ call.settings.hasMin /\ call.settings.hasMax )
        => NumbersClampedByRule

\* C8: with only max given the number written is max when the value exceeds it
\* and the value otherwise; with only min given it is min when the value is
\* below it and the value otherwise; the bound 0 included.
C8_SingleBound ==
    ( /\ call.op \in {"insertIfNotExistsMany", "updateIfExistsMany", "insertOrUpdateMany"}
      /\ call.settings.hasMin # call.settings.hasMax )
        => NumbersClampedByRule

\* C9: a write with clamp settings does not fail, and a non-numeric value it
\* writes is stored exactly as given, on every backend.
C9_NonNumericPassesThrough ==
    ( /\ call.op \in {"insertIfNotExistsMany", "updateIfExistsMany", "insertOrUpdateMany"}
      /\ call.settings.given
      /\ \E i \in 1..Len(call.items) : Written(i).value.type # "number" )
        => /\ ret.status = "resolved"
           /\ \A i \in 1..Len(call.items) :
                 (Written(i).writes /\ Written(i).value.type # "number") =>
                     StoredAfter(call.items[i][1]) = {JSONstringify(Written(i).value)}

\* C10: after insertOrUpdateMany every key of the batch holds the clamped
\* insertValue of an item naming it if it was absent, the clamped updateValue
\* of an item naming it if it was present; the entries the batch does not name
\* are unchanged.
C10_InsertOrUpdateWritesOneCandidate ==
    call.op = "insertOrUpdateMany" =>
        /\ \A key \in CallKeys :
              \E i \in 1..Len(call.items) :
                 /\ call.items[i][1] = key
                 /\ StoredAfter(key)
                      = {JSONstringify(Clamped(Written(i).value, call.settings))}
        /\ NotNamed(Store, CallKeys) = NotNamed(prev, CallKeys)

\* the plain test a scan is specified to make on the raw key text
PlainMatch(op, key, pattern) ==
    CASE op = "getStartsWithMany" -> StartsWith(key, pattern)
      [] op = "getEndsWithMany" -> EndsWith(key, pattern)
      [] op = "getIncludesMany" -> Includes(key, pattern)
ScanOps == {"getStartsWithMany", "getEndsWithMany", "getIncludesMany"}
\* the (key, value) pairs of the bound namespace whose key passes the plain test
PlainMatches ==
    LET own == OwnEntries(backend, prev, call.namespace)
    IN {<<EntryKey(backend, own[i]), JSONparse(EntryValue(backend, own[i]))>> :
            i \in {j \in 1..Len(own) :
                      PlainMatch(call.op, EntryKey(backend, own[j]), call.pattern)}}

\* C11: a scan yields exactly the entries of the bound namespace whose key has
\* the pattern as a plain prefix, suffix or substring, each once with its
\* stored value; '%' and '_' in the pattern match only themselves.
C11_ScansArePlainTests ==
    call.op \in ScanOps =>
        /\ ret.status = "resolved"
        /\ Range(ret.value) = PlainMatches
        /\ Len(ret.value) = Cardinality(PlainMatches)

\* C12: when insertIfNotExistsMany has settled, the same call made again on
\* the store it left changes nothing in the store and reports false for every
\* input key.
C12_InsertTwiceIsInsertOnce ==
    call.op = "insertIfNotExistsMany" =>
        LET second == WriteResult(backend, Store, call)
        IN /\ ret.status = "resolved"
           /\ second.ret.status = "resolved"
           /\ second.store = Store
           /\ DOMAIN second.ret.value = CallKeys
           /\ \A key \in CallKeys : second.ret.value[key] = FALSE

\* a first call inserted a key, so the second call meets what the first wrote
C12_Witness ==
    /\ call.op = "insertIfNotExistsMany"
    /\ Store # prev
    /\ \E key \in CallKeys : ret.value[key] = TRUE

\* what getMany(keys) of the instance the call was made on resolves to when it
\* is called on the store st
GetManyOn(st, keys) ==
    ReadResult(backend, st, Call("getMany", call.namespace, keys, <<>>, <<>>, NoSettings))

\* C13: after insertIfNotExistsMany([(k, v)]) without clamp settings on an
\* absent k, and after updateIfExistsMany([(k, v)]) on a present k,
\* getMany([k]) gives v for k.
C13_RoundTrip ==
    ( /\ call.op \in {"insertIfNotExistsMany", "updateIfExistsMany"}
      /\ ~call.settings.given
      /\ Len(call.items) = 1
      /\ PresentBefore(call.items[1][1]) = (call.op = "updateIfExistsMany") )
        => GetManyOn(Store, <<call.items[1][1]>>)[call.items[1][1]] = call.items[1][2]

\* what a read without arguments of the instance the call was made on
\* resolves to when it is called on the store st
ReadOn(st, op) ==
    ReadResult(backend, st, Call(op, call.namespace, <<>>, <<>>, <<>>, NoSettings))

\* C14: after clear() the bound namespace is empty (size() is 0, getMany gives
\* null for every key, iteration yields nothing), the entries of the other
\* namespaces are as before, the call raises no error, and a clear of an
\* empty namespace leaves the shared map / table as it was.
C14_ClearEmptiesTheNamespace ==
    call.op = "clear" =>
        /\ ret.status = "resolved"
        /\ ReadOn(Store, "size") = 0
        /\ ReadOn(Store, "asyncIterator") = <<>>
        /\ \A keys \in KeyLists :
              GetManyOn(Store, keys) = [key \in Range(keys) |-> Null]
        /\ OtherEntries(backend, Store, call.namespace)
              = OtherEntries(backend, prev, call.namespace)
        /\ OwnEntries(backend, prev, call.namespace) = <<>> => Store = prev

\* a clear of a namespace that held two entries
C14_Witness ==
    /\ call.op = "clear"
    /\ Len(OwnEntries(backend, prev, call.namespace)) = 2
    /\ Len(Store) = Len(prev) - 2

\* what size() of an instance bound to namespace resolves to on the store st
SizeOf(st, namespace) ==
    ReadResult(backend, st, Call("size", namespace, <<>>, <<>>, <<>>, NoSettings))
\* the keys a batch call reports true for
ReportedTrue == {key \in DOMAIN ret.value : ret.value[key] = TRUE}

\* C15: size() is the number of distinct keys stored in the bound namespace;
\* insertIfNotExistsMany raises it by the number of keys it reports true,
\* removeIfExistsMany lowers it by the number of keys it reports true, and
\* updateIfExistsMany leaves it as it was.
C15_SizeCountsKeys ==
    /\ \A namespace \in Namespaces :
          SizeOf(Store, namespace) = Cardinality(KeysOf(backend, Store, namespace))
    /\ (call.op = "insertIfNotExistsMany" /\ ret.status = "resolved") =>
          SizeOf(Store, call.namespace)
              = SizeOf(prev, call.namespace) + Cardinality(ReportedTrue)
    /\ (call.op = "removeIfExistsMany" /\ ret.status = "resolved") =>
          SizeOf(Store, call.namespace)
              = SizeOf(prev, call.namespace) - Cardinality(ReportedTrue)
    /\ call.op = "updateIfExistsMany" =>
          SizeOf(Store, call.namespace) = SizeOf(prev, call.namespace)

\* error.cause of a thrown error that has one
CauseOf(error) == JsError(Head(error.cause), Tail(error.cause))

\* C17: a call of a SQL adapter that fails on an underlying error which is
\* not a storage error rejects with an UnexpectedKeyValueStorageError whose
\* cause is that error itself.
C17_UnexpectedErrorCarriesTheCause ==
    ( /\ backend # "memory"
      /\ call.op \in MutatingOps \cup ReadOps
      /\ ret.status = "rejected" )
        => /\ ret.value.name = "UnexpectedKeyValueStorageError"
           /\ ret.value.cause # <<>>
           /\ CauseOf(ret.value) = DatabaseError

\* C16: whatever a call of an adapter rejects with is an instance of
\* KeyValueStorageError, the call of transaction included.
C16_EveryErrorIsAStorageError ==
    ret.status = "rejected" => InstanceOfKeyValueStorageError(ret.value)

\* what transactionFn does on a handle of the instance's namespace, from the
\* store the call of transaction found
FnRun == RunTransactionFn(backend, prev, call.namespace, fn)

C19_TransactionReturnsWhatFnReturns ==
    (call.op = "transaction" /\ FnRun.ret.status = "resolved") =>
        /\ ret = FnRun.ret
        /\ fn.writes = <<>> =>
              /\ ret.value = GetManyOn(prev, fn.keys)
              /\ \A key \in Range(fn.keys) :
                    ret.value[key] = IF PresentBefore(key)
                                     THEN JSONparse(CHOOSE text \in StoredBefore(key) : TRUE)
                                     ELSE Null

\* a transactionFn read a key that its namespace held and another did not
C19_Witness ==
    /\ call.op = "transaction"
    /\ ret.status = "resolved"
    /\ fn.writes = <<>>
    /\ ret.value[<<"a">>] = Num(5)
    /\ \E namespace \in Namespaces : ~Present(backend, prev, namespace, <<"a">>)

(***************************************************************************)
(* Iteration of the memory adapter, one item at a time.  The generator     *)
(* walks the shared Map with for...of, and a Map iterator is live: it      *)
(* visits an entry appended while the walk is going on, and an entry that  *)
(* is deleted leaves the entries after it where they are for the walk.     *)
(* cursor is the number of entries of the map the walk has passed; ret     *)
(* holds the items yielded so far and is pending until the walk is over.   *)
(***************************************************************************)
Pending(items) == [status |-> "pending", value |-> items]

\* the generator resumed by next(): the first entry after the cursor that is
\* of the bound namespace is yielded; without one the generator returns
Memory_next(m, this_namespace, position) ==
    LET mine(i) ==
            LET ik == deserializeInternalKey(m[i][1])
            IN this_namespace = ik.namespace /\ hasInternal(m, ik.key, ik.namespace)
        rest == {i \in (position + 1)..Len(m) : mine(i)}
    IN IF rest = {} THEN [done |-> TRUE, cursor |-> Len(m), item |-> <<>>]
       ELSE LET i == CHOOSE j \in rest : \A k \in rest : j <= k
            IN [done |-> FALSE, cursor |-> i,
                item |-> <<deserializeInternalKey(m[i][1]).key, JSONparse(m[i][2])>>]

\* Map.delete during a walk: an entry the walk has passed no longer counts
CursorAfterDelete(m, k, position) ==
    IF MapHas(m, k) /\ MapIndex(m, k) <= position THEN position - 1 ELSE position

\* the maps a walk can start on: what inserts of 5 under some keys leave
RECURSIVE SetAll(_)
SetAll(entries) ==
    IF Len(entries) = 0 THEN <<>>
    ELSE setInternal(SetAll(SubSeq(entries, 1, Len(entries) - 1)),
                     entries[Len(entries)][2], entries[Len(entries)][1], Num(5))
IterationMaps == {SetAll(entries) : entries \in SeqsOfLen(Namespaces \X Keys, 0..MaxEntries)}

IterationInit ==
    /\ backend = "memory"
    /\ map \in IterationMaps
    /\ table = <<>>
    /\ \E namespace \in Namespaces :
          call = Call("asyncIterator", namespace, <<>>, <<>>, <<>>, NoSettings)
    /\ fn = NoFn
    /\ prev = map
    /\ ret = Pending(<<>>)
    /\ cursor = 0
    /\ queries = 0
    /\ seen = NotSeen
    /\ stream = "none"
    /\ history = <<>>

\* the consumer asks for the next item
next ==
    /\ ret.status = "pending"
    /\ Len(ret.value) < MaxYields
    /\ LET r == Memory_next(map, call.namespace, cursor)
       IN /\ cursor' = r.cursor
          /\ ret' = IF r.done THEN Resolved(ret.value) ELSE Pending(Append(ret.value, r.item))
    /\ UNCHANGED <<backend, map, table, call, fn, prev, queries, seen, stream, history>>

\* between two items the consumer or another caller writes to the shared map
insertBetweenItems ==
    /\ ret.status = "pending"
    /\ Len(ret.value) >= 1
    /\ \E namespace \in Namespaces, key \in Keys :
          LET r == Memory_insertIfNotExistsMany(map, namespace, << <<key, Num(5)>> >>, NoSettings)
          IN /\ Len(r.map) <= MaxEntries
             /\ map' = r.map
    /\ UNCHANGED <<backend, table, call, fn, prev, ret, cursor, queries, seen, stream, history>>

updateBetweenItems ==
    /\ ret.status = "pending"
    /\ Len(ret.value) >= 1
    /\ \E namespace \in Namespaces, key \in Keys :
          map' = Memory_updateIfExistsMany(map, namespace, << <<key, Num(10)>> >>, NoSettings).map
    /\ UNCHANGED <<backend, table, call, fn, prev, ret, cursor, queries, seen, stream, history>>

removeBetweenItems ==
    /\ ret.status = "pending"
    /\ Len(ret.value) >= 1
    /\ \E namespace \in Namespaces, key \in Keys :
          /\ map' = Memory_removeIfExistsMany(map, namespace, <<key>>).map
          /\ cursor' = CursorAfterDelete(map, serializeInternalKey(key, namespace), cursor)
    /\ UNCHANGED <<backend, table, call, fn, prev, ret, queries, seen, stream, history>>

IterationNext ==
    \/ next
    \/ insertBetweenItems
    \/ updateBetweenItems
    \/ removeBetweenItems

IterationSpec == IterationInit /\ [][IterationNext]_vars

\* C20: an iteration yields at most as many items as the bound namespace held
\* when it started, whatever is written to the shared map between two items.
C20_IterationYieldsAtMostInitialSize ==
    (call.op = "asyncIterator" /\ backend = "memory") =>
        Len(ret.value) <= sizeInternal(prev, call.namespace)

\* a call that was given no keys or no items
EmptyInput ==
    \/ call.op \in {"getMany", "removeIfExistsMany"} /\ call.keys = <<>>
    \/ call.op \in {"insertIfNotExistsMany", "updateIfExistsMany", "insertOrUpdateMany"}
       /\ call.items = <<>>

\* C21: on every adapter getMany([]), insertIfNotExistsMany([]),
\* updateIfExistsMany([]) and removeIfExistsMany([]) resolve to an empty
\* record, leave the store as it was and send no statement to the database;
\* insertOrUpdateMany([]) returns without sending a statement.
C21_EmptyInputShortcut ==
    EmptyInput =>
        /\ ret.status = "resolved"
        /\ call.op # "insertOrUpdateMany" => ret.value = EmptyRecord
        /\ Store = prev
        /\ queries = 0

\* a Postgres updateIfExistsMany([]) on a table that holds rows of the namespace
C21_Witness ==
    /\ EmptyInput
    /\ call.op = "updateIfExistsMany"
    /\ backend = "postgres"
    /\ OwnEntries(backend, prev, call.namespace) # <<>>

(***************************************************************************)
(* A batch write of the memory adapter, one iteration of its for...of at a *)
(* time, next to a second caller that reads the same shared map.  ret is   *)
(* pending, with the record filled so far, while the method body runs;     *)
(* cursor counts the iterations it has made.  A value JSON.stringify       *)
(* throws on (a BigInt) makes setInternal throw out of the loop.           *)
(***************************************************************************)
BigInt == [type |-> "bigint", num |-> 1, str |-> <<>>]
\* JSON.stringify(value) throws a TypeError
JSONstringifyThrows(value) == value.type = "bigint"
TypeError == JsError("TypeError", <<>>)

BatchOps == {"insertIfNotExistsMany", "updateIfExistsMany", "removeIfExistsMany"}
BatchLen(c) == IF c.op = "removeIfExistsMany" THEN Len(c.keys) ELSE Len(c.items)
BatchKey(c, i) == IF c.op = "removeIfExistsMany" THEN c.keys[i] ELSE c.items[i][1]
\* the call narrowed to the i-th element of its batch
BatchElement(c, i) ==
    IF c.op = "removeIfExistsMany" THEN [c EXCEPT !.keys = <<c.keys[i]>>]
    ELSE [c EXCEPT !.items = <<c.items[i]>>]

\* the i-th iteration of the loop of the batch call c on the map m: the body
\* assigns record[key], and throws when it comes to JSON.stringify a value
\* that cannot be serialized, before map.set is reached
Memory_iteration_setsBeforeThrowing(m, c, i) ==
    LET one == WriteResult("memory", m, BatchElement(c, i))
        key == BatchKey(c, i)
        sets == c.op # "removeIfExistsMany" /\ one.ret.value[key]
    IN [map |-> one.store,
        has |-> one.ret.value[key],
        thrown |-> sets /\ JSONstringifyThrows(Memory_clampValue(c.items[i][2], c.settings))]
Memory_iteration(m, c, i) ==
    LET one == WriteResult("memory", m, BatchElement(c, i))
        key == BatchKey(c, i)
        sets == c.op # "removeIfExistsMany" /\ one.ret.value[key]
    IN IF sets /\ JSONstringifyThrows(Memory_clampValue(c.items[i][2], c.settings))
       THEN [map |-> m, has |-> one.ret.value[key], thrown |-> TRUE]
       ELSE [map |-> one.store, has |-> one.ret.value[key], thrown |-> FALSE]

\* whether the body of a batch method is suspended between two iterations:
\* the loops hold no await, the body runs from its call to its return
SuspendedBetweenItems_awaitsEachItem(op) == TRUE
SuspendedBetweenItems(op) == FALSE

LoopValues == {Num(5), BigInt}
BatchCalls ==
    {Call(op, namespace, <<>>, items, <<>>, NoSettings) :
        op \in {"insertIfNotExistsMany", "updateIfExistsMany"},
        namespace \in Namespaces,
        items \in SeqsOfLen(Keys \X LoopValues, 0..MaxItems)}
    \cup {Call("removeIfExistsMany", namespace, keys, <<>>, <<>>, NoSettings) :
        namespace \in Namespaces, keys \in KeyLists}
\* what the second caller reads
ConcurrentReads ==
    {Call("size", namespace, <<>>, <<>>, <<>>, NoSettings) : namespace \in Namespaces}
    \cup {Call("getMany", namespace, <<(<<"a">>), <<"a", "b">> >>, <<>>, <<>>, NoSettings) :
            namespace \in Namespaces}

BatchInit ==
    /\ backend = "memory"
    /\ map = <<>>
    /\ table = <<>>
    /\ call = Idle
    /\ fn = NoFn
    /\ prev = <<>>
    /\ ret = Resolved(Undefined)
    /\ cursor = 0
    /\ queries = 0
    /\ seen = NotSeen
    /\ stream = "none"
    /\ history = <<>>

\* a caller calls a batch method: its body starts to run
batchCall ==
    /\ call = Idle
    /\ \E c \in BatchCalls :
          /\ call' = c
          /\ prev' = map
          /\ ret' = Pending(EmptyRecord)
          /\ cursor' = 0
          /\ seen' = NotSeen
    /\ UNCHANGED <<backend, map, table, fn, queries, stream, history>>

\* one iteration of the loop
batchIteration ==
    /\ call # Idle
    /\ ret.status = "pending"
    /\ cursor < BatchLen(call)
    /\ LET it == Memory_iteration(map, call, cursor + 1)
       IN /\ Len(it.map) <= MaxEntries
          /\ map' = it.map
          /\ cursor' = cursor + 1
          /\ ret' = IF it.thrown THEN Rejected(TypeError)
                    ELSE Pending(SetProperty(ret.value, BatchKey(call, cursor + 1), it.has))
    /\ UNCHANGED <<backend, table, call, fn, prev, queries, seen, stream, history>>

\* return record
batchReturn ==
    /\ call # Idle
    /\ ret.status = "pending"
    /\ cursor = BatchLen(call)
    /\ ret' = Resolved(ret.value)
    /\ UNCHANGED <<backend, map, table, call, fn, prev, cursor, queries, seen, stream, history>>

\* a second caller reads the shared map: its call can only start when no
\* other body is running, or when the running one is suspended
concurrentRead ==
    /\ call # Idle
    /\ ret.status = "pending" => (cursor < BatchLen(call) /\ SuspendedBetweenItems(call.op))
    /\ \E c \in ConcurrentReads :
          seen' = [call |-> c, value |-> ReadResult("memory", map, c)]
    /\ UNCHANGED <<backend, map, table, call, fn, prev, ret, cursor, queries, stream, history>>

\* the caller of the batch takes the settled promise
batchAwait ==
    /\ call # Idle
    /\ ret.status # "pending"
    /\ call' = Idle
    /\ prev' = <<>>
    /\ ret' = Resolved(Undefined)
    /\ cursor' = 0
    /\ seen' = NotSeen
    /\ UNCHANGED <<backend, map, table, fn, queries, stream, history>>

BatchNext ==
    \/ batchCall
    \/ batchIteration
    \/ batchReturn
    \/ concurrentRead
    \/ batchAwait

BatchSpec == BatchInit /\ [][BatchNext]_vars

\* the map the loop of the batch call c leaves when it goes on from
\* iteration i on the map m, to its end or to the iteration that throws
RECURSIVE LoopFrom(_, _, _)
LoopFrom(m, c, i) ==
    IF i > BatchLen(c) THEN m
    ELSE LET it == Memory_iteration(m, c, i)
         IN IF it.thrown THEN it.map ELSE LoopFrom(it.map, c, i + 1)
\* what the second caller would have read on the map m
SeenOn(m) == ReadResult("memory", m, seen.call)
\* the second caller read something that is neither what the map held before
\* the batch nor what the whole batch leaves
PartialBatchSeen ==
    /\ seen.call # Idle
    /\ seen.value # SeenOn(prev)
    /\ seen.value # SeenOn(LoopFrom(prev, call, 1))

BatchBefore(c, i) ==
    IF c.op = "removeIfExistsMany" THEN [c EXCEPT !.keys = SubSeq(c.keys, 1, i - 1)]
    ELSE [c EXCEPT !.items = SubSeq(c.items, 1, i - 1)]

\* C23: when writing the i-th item of a batch of the memory adapter throws,
\* the call rejects with that error, the items before i stay applied and the
\* items from i on are not applied.
C23_ErrorKeepsEarlierItems ==
    (call.op \in BatchOps /\ ret.status = "rejected") =>
        /\ ret.value = TypeError
        /\ JSONstringifyThrows(call.items[cursor][2])
        /\ map = WriteResult("memory", prev, BatchBefore(call, cursor)).store

\* the second item threw after the first was inserted
C23_Witness ==
    /\ call.op = "insertIfNotExistsMany"
    /\ ret.status = "rejected"
    /\ cursor = 2
    /\ Len(call.items) = 2
    /\ Len(map) = Len(prev) + 1

\* the JSON text each adapter stores for the number value under settings
MemoryClampedText(value, settings) == JSONstringify(Memory_clampValue(value, settings))
SqliteClampedText(value, settings) ==
    Sqlite_sqlClampJsonValue(JSONstringify(value), settings).text
PostgresClampedText(value, settings) == Postgres_sqlClamp(JSONstringify(value), settings).text

\* C24: for every number and every clamp settings, min > max included, the
\* value the memory adapter's clamp stores is the value the SQLite and the
\* Postgres clamp expressions store for the same input.
C24_BackendsClampAlike ==
    (call.op = "insertIfNotExistsMany" /\ call.settings.given /\ Len(call.items) = 1
        /\ call.items[1][2].type = "number")
    => LET value == call.items[1][2]
       IN /\ MemoryClampedText(value, call.settings) = SqliteClampedText(value, call.settings)
          /\ MemoryClampedText(value, call.settings) = PostgresClampedText(value, call.settings)

\* C25: getMany, hasMany, size, iteration and the three pattern scans leave
\* the whole shared map / table as it was, for keys that exist and for keys
\* that do not.
C25_ReadsLeaveTheStore ==
    call.op \in ReadOps => Store = prev

\* a getMany of a key that exists and a key that does not
C25_Witness ==
    /\ call.op = "getMany"
    /\ \E key \in Range(call.keys) : Present(backend, prev, call.namespace, key)
    /\ \E key \in Range(call.keys) : ~Present(backend, prev, call.namespace, key)
    /\ Store = prev

(***************************************************************************)
(* The internal key derivation of the memory adapter on its own: applied   *)
(* to namespaces and keys that hold the characters JSON escapes, and used  *)
(* by setInternal / removeInternal on the shared map.                      *)
(***************************************************************************)
InternalKeyStrings == SeqsOfLen({"a", "\"", "\\"}, 0..MaxKeyLen)
\* the namespaces and keys written to the map
EscapedNamespaces == {<<>>, <<"\"">>}
EscapedKeys == {<<"\\">>, <<"\\", "\"">>}

InternalKeyInit ==
    /\ backend = "memory"
    /\ map = <<>>
    /\ table = <<>>
    /\ call = Idle
    /\ fn = NoFn
    /\ prev = <<>>
    /\ ret = Resolved(Undefined)
    /\ cursor = 0
    /\ queries = 0
    /\ seen = NotSeen
    /\ stream = "none"
    /\ history = <<>>

\* serializeInternalKey({key, namespace})
serializeInternalKeyCall ==
    /\ call = Idle
    /\ map = <<>>
    /\ \E namespace \in InternalKeyStrings, key \in InternalKeyStrings :
          /\ call' = Call("serializeInternalKey", namespace, <<key>>, <<>>, <<>>, NoSettings)
          /\ ret' = Resolved(serializeInternalKey(key, namespace))
    /\ UNCHANGED <<backend, map, table, fn, prev, cursor, queries, seen, stream, history>>

\* deserializeInternalKey(internalKey) of the string just derived
deserializeInternalKeyCall ==
    /\ call.op = "serializeInternalKey"
    /\ call' = [call EXCEPT !.op = "deserializeInternalKey"]
    /\ prev' = ret.value
    /\ ret' = Resolved(deserializeInternalKey(ret.value))
    /\ UNCHANGED <<backend, map, table, fn, cursor, queries, seen, stream, history>>

internalKeyReturn ==
    /\ call.op = "deserializeInternalKey"
    /\ call' = Idle
    /\ prev' = <<>>
    /\ ret' = Resolved(Undefined)
    /\ UNCHANGED <<backend, map, table, fn, cursor, queries, seen, stream, history>>

setInternalCall ==
    /\ call = Idle
    /\ \E namespace \in EscapedNamespaces, key \in EscapedKeys, value \in {Num(5), Num(10)} :
          LET m == setInternal(map, key, namespace, value)
          IN /\ Len(m) <= MaxEntries
             /\ map' = m
    /\ UNCHANGED <<backend, table, call, fn, prev, ret, cursor, queries, seen, stream, history>>

removeInternalCall ==
    /\ call = Idle
    /\ \E namespace \in EscapedNamespaces, key \in EscapedKeys :
          map' = removeInternal(map, key, namespace).map
    /\ UNCHANGED <<backend, table, call, fn, prev, ret, cursor, queries, seen, stream, history>>

InternalKeyNext ==
    \/ serializeInternalKeyCall
    \/ deserializeInternalKeyCall
    \/ internalKeyReturn
    \/ setInternalCall
    \/ removeInternalCall

InternalKeySpec == InternalKeyInit /\ [][InternalKeyNext]_vars

\* C26: serializeInternalKey gives the same string only for the same
\* namespace and the same key, deserializeInternalKey gives back the pair a
\* string was derived from, and the shared map holds at most one entry per
\* (namespace, key).
C26_InternalKeyIsInjective ==
    /\ call.op = "serializeInternalKey" =>
          \A namespace \in InternalKeyStrings, key \in InternalKeyStrings :
              serializeInternalKey(key, namespace) = ret.value
                  => (namespace = call.namespace /\ key = call.keys[1])
    /\ call.op = "deserializeInternalKey" =>
          ret.value = [key |-> call.keys[1], namespace |-> call.namespace]
    /\ \A i \in 1..Len(map), j \in 1..Len(map) :
          deserializeInternalKey(map[i][1]) = deserializeInternalKey(map[j][1]) => i = j

\* a pair with a quote and a backslash came back from its internal key
C26_Witness ==
    /\ call.op = "deserializeInternalKey"
    /\ call.keys[1] = <<"\\", "\"">>
    /\ call.namespace = <<"\"">>
    /\ ret.value.key = <<"\\", "\"">>

(***************************************************************************)
(* A scan, from the call to the end of each of its iterations.             *)
(* getStartsWithMany, getEndsWithMany and getIncludesMany only construct   *)
(* an object; [Symbol.asyncIterator]() of that object (or of the storage   *)
(* itself) makes a generator whose body runs from the first next(): it is  *)
(* there that the SQL adapters build the statement and call .stream(), and *)
(* that the memory adapter starts to walk the Map.  The body is             *)
(*     for await (const { key, value } of stream) { yield [...]; }         *)
(* so a return() of the consumer at a yield closes the stream before the   *)
(* generator completes.  prev is the store at the call, seen.value the     *)
(* store the inner iterator reads, cursor the items it has delivered,      *)
(* queries the scans started since the call (one statement each on the     *)
(* SQL adapters), and stream the state of                                  *)
(* the inner iterator: "none" before the first next(), then "open", and    *)
(* "closed" once it is exhausted or returned.                              *)
(***************************************************************************)
\* most iterations of one returned object
MaxScans == 2

Iterable == [status |-> "iterable", value |-> <<>>]
Returned(items) == [status |-> "returned", value |-> items]

ScanCalls ==
    { Call(op, namespace, <<>>, <<>>, pattern, NoSettings) :
        op \in {"getStartsWithMany", "getEndsWithMany", "getIncludesMany"},
        namespace \in Namespaces, pattern \in {<<"a">>, <<"b">>} }
    \cup { Call("asyncIterator", namespace, <<>>, <<>>, <<>>, NoSettings) :
             namespace \in Namespaces }

\* the writes another caller makes between the iterations of a scan
ScanWrites(namespace) ==
    { Call("insertIfNotExistsMany", namespace, <<>>, << <<key, Num(5)>> >>, <<>>, NoSettings) :
        key \in Keys }
    \cup { Call("removeIfExistsMany", namespace, <<key>>, <<>>, <<>>, NoSettings) :
             key \in Keys }

\* the store the inner iterator reads, of the store at the call and the store
\* at the first next(): the statement is built and sent by the generator body
ScannedStore_readAtCall(atCall, atNext) == atCall
ScannedStore(atCall, atNext) == atNext

\* the inner iterator after the generator was returned at a yield: for await
\* closes the iterator it is looping over
StreamAfterReturn_leftOpen(s) == s
StreamAfterReturn(s) == IF s = "open" THEN "closed" ELSE s

ScanInit ==
    /\ backend \in Backends
    /\ map = <<>>
    /\ table = <<>>
    /\ call = Idle
    /\ fn = NoFn
    /\ prev = <<>>
    /\ ret = Resolved(<<>>)
    /\ cursor = 0
    /\ queries = 0
    /\ seen = NotSeen
    /\ stream = "none"
    /\ history = <<>>

\* a write while no iteration is going on: by anyone before the call, in the
\* namespace of the scan after it
writeBetweenScans ==
    /\ ret.status # "pending"
    /\ \E namespace \in Namespaces : \E c \in ScanWrites(namespace) :
          /\ call # Idle => namespace = call.namespace
          /\ LET st == WriteResult(backend, Store, c).store
             IN /\ Len(st) <= MaxEntries
                /\ IF backend = "memory"
                   THEN map' = st /\ table' = table
                   ELSE table' = st /\ map' = map
    /\ UNCHANGED <<backend, call, fn, prev, ret, cursor, queries, seen, stream, history>>

\* getStartsWithMany / getEndsWithMany / getIncludesMany return their object
\* (for the iteration of the storage the object is the storage)
scanCall ==
    /\ call = Idle
    /\ \E c \in ScanCalls : call' = c
    /\ prev' = Store
    /\ ret' = Iterable
    /\ UNCHANGED <<backend, map, table, fn, cursor, queries, seen, stream, history>>

\* [Symbol.asyncIterator]() of the returned object: a generator not yet started
iterate ==
    /\ call # Idle
    /\ ret.status # "pending"
    /\ queries < MaxScans
    /\ ret' = Pending(<<>>)
    /\ cursor' = 0
    /\ stream' = "none"
    /\ UNCHANGED <<backend, map, table, call, fn, prev, queries, seen, history>>

\* next() of the generator: the first one starts the inner iterator
streamNext ==
    /\ ret.status = "pending"
    /\ LET first == stream = "none"
           st == IF first THEN ScannedStore(prev, Store) ELSE seen.value
           items == ReadResult(backend, st, call)
       IN /\ seen' = [call |-> call, value |-> st]
          /\ queries' = IF first THEN queries + 1 ELSE queries
          /\ IF cursor < Len(items)
             THEN /\ cursor' = cursor + 1
                  /\ ret' = Pending(Append(ret.value, items[cursor + 1]))
                  /\ stream' = "open"
             ELSE /\ cursor' = cursor
                  /\ ret' = Resolved(ret.value)
                  /\ stream' = "closed"
    /\ UNCHANGED <<backend, map, table, call, fn, prev, history>>

\* return() of the generator: the consumer stops before the end
streamReturn ==
    /\ ret.status = "pending"
    /\ ret' = Returned(ret.value)
    /\ stream' = StreamAfterReturn(stream)
    /\ UNCHANGED <<backend, map, table, call, fn, prev, cursor, queries, seen, history>>

ScanNext ==
    \/ writeBetweenScans
    \/ scanCall
    \/ iterate
    \/ streamNext
    \/ streamReturn

ScanSpec == ScanInit /\ [][ScanNext]_vars

\* C27: on the SQL adapters no stream of an iteration or of a pattern scan is
\* open once the consumer has stopped, whether it went on to the end or
\* returned the iterator before it.
C27_AbandonedScanReleasesTheStream ==
    (backend # "memory" /\ ret.status \in {"returned", "resolved"}) => stream # "open"

\* a Postgres pattern scan returned after its first item, with more to come
C27_Witness ==
    /\ backend = "postgres"
    /\ call.op = "getStartsWithMany"
    /\ ret.status = "returned"
    /\ Len(ret.value) = 1
    /\ Len(ReadResult(backend, seen.value, call)) = 2
    /\ stream = "closed"

\* C29: a pattern scan or an iteration reads nothing when it is called: no
\* scan is started before the returned object is iterated.  Every iteration
\* starts a scan of its own on the store as it is then, so the items it
\* yields are those of the present store, including what was written after
\* the call and after an earlier iteration of the same object.
C29_ScansAreLazyAndRestartable ==
    /\ ret.status = "iterable" =>
          /\ queries = 0
          /\ stream = "none"
          /\ seen.call = Idle
    /\ (ret.status = "pending" /\ stream # "none") =>
          /\ seen.value = Store
          /\ ret.value = SubSeq(ReadResult(backend, Store, call), 1, cursor)
    /\ (ret.status = "resolved" /\ call # Idle) =>
          ret.value = ReadResult(backend, seen.value, call)

\* the second iteration of one returned object yields an item that the store
\* did not hold at the call
C29_Witness ==
    /\ call.op = "getEndsWithMany"
    /\ queries = 2
    /\ ret.status = "pending"
    /\ Len(ret.value) = 1
    /\ ReadResult(backend, prev, call) = <<>>
    /\ Store # prev

\* C28: the memory adapter offers transaction(transactionFn) like the SQL
\* adapters do: a caller that is free to call can call it on an instance of
\* MemoryKeyValueStorage, and it runs transactionFn on the instance and
\* settles as transactionFn does.
C28_MemoryOffersTransaction ==
    (backend = "memory" /\ call = Idle) => ENABLED transaction

(***************************************************************************)
(* The order of the shared Map.  Entries live in a Map, which keeps its     *)
(* keys in the order of their insertion: set() of a key it holds replaces  *)
(* the value in place, delete() followed by set() appends the key anew.    *)
(* The generator walks the Map with for...of and the pattern scans filter  *)
(* that walk.  history is the log of the writes made since construction.   *)
(***************************************************************************)
\* most writes logged in one behaviour
MaxCalls == 4

\* the single-key writes of the callers of the memory adapter: inserts and
\* removes in every namespace, updates in one
OrderedWrites ==
    { Call("insertIfNotExistsMany", namespace, <<>>, << <<key, Num(5)>> >>, <<>>, NoSettings) :
        namespace \in Namespaces, key \in Keys }
    \cup { Call("updateIfExistsMany", <<"g">>, <<>>, << <<key, Num(10)>> >>, <<>>, NoSettings) :
             key \in Keys }
    \cup { Call("removeIfExistsMany", namespace, <<key>>, <<>>, <<>>, NoSettings) :
             namespace \in Namespaces, key \in Keys }

\* the iteration of an instance and a pattern scan that matches every key
OrderedReads ==
    { Call("asyncIterator", namespace, <<>>, <<>>, <<>>, NoSettings) : namespace \in Namespaces }
    \cup { Call("getStartsWithMany", namespace, <<>>, <<>>, <<"a">>, NoSettings) :
             namespace \in Namespaces }

OrderInit ==
    /\ backend = "memory"
    /\ map = <<>>
    /\ table = <<>>
    /\ call = Idle
    /\ fn = NoFn
    /\ prev = <<>>
    /\ ret = Resolved(<<>>)
    /\ cursor = 0
    /\ queries = 0
    /\ seen = NotSeen
    /\ stream = "none"
    /\ history = <<>>

\* insertIfNotExistsMany / updateIfExistsMany / removeIfExistsMany of one key
orderedWrite ==
    /\ Len(history) < MaxCalls
    /\ \E c \in OrderedWrites :
          LET w == WriteResult("memory", map, c)
          IN /\ Len(w.store) <= MaxEntries
             /\ map' = w.store
             /\ call' = c
             /\ ret' = w.ret
             /\ history' = Append(history, c)
    /\ prev' = map
    /\ UNCHANGED <<backend, table, fn, cursor, queries, seen, stream>>

\* for await (... of storage) / for await (... of storage.getStartsWithMany("a"))
orderedRead ==
    /\ \E c \in OrderedReads :
          /\ call' = c
          /\ ret' = Resolved(ReadResult("memory", map, c))
    /\ prev' = map
    /\ UNCHANGED <<backend, map, table, fn, cursor, queries, seen, stream, history>>

OrderNext ==
    \/ orderedWrite
    \/ orderedRead

OrderSpec == OrderInit /\ [][OrderNext]_vars

\* the keys of a namespace in the order the claim gives them after a log of
\* writes: an insert of a key that is not listed puts it last, an update
\* leaves the list alone, a remove takes the key out
RECURSIVE FirstInsertionOrder(_, _)
FirstInsertionOrder(log, namespace) ==
    IF Len(log) = 0 THEN <<>>
    ELSE LET before == FirstInsertionOrder(SubSeq(log, 1, Len(log) - 1), namespace)
             c == log[Len(log)]
         IN IF c.namespace # namespace THEN before
            ELSE CASE c.op = "insertIfNotExistsMany" ->
                        (IF InSeq(c.items[1][1], before) THEN before
                         ELSE Append(before, c.items[1][1]))
                   [] c.op = "removeIfExistsMany" ->
                        SelectSeq(before, LAMBDA key : key # c.keys[1])
                   [] OTHER -> before

\* C30: the iteration of a memory instance, and a pattern scan that matches
\* every key, yield the keys of the bound namespace in the order of their
\* first insertion: an update keeps the place of its key, and a key that was
\* removed and inserted again comes last.
C30_MemoryYieldsInInsertionOrder ==
    call.op \in {"asyncIterator", "getStartsWithMany"} =>
        [i \in 1..Len(ret.value) |-> ret.value[i][1]]
            = FirstInsertionOrder(history, call.namespace)

\* a and ab inserted, a updated, removed and inserted again: ab comes first
C30_Witness ==
    /\ call.op = "asyncIterator"
    /\ Len(history) = 4
    /\ history[1].op = "insertIfNotExistsMany" /\ history[1].items[1][1] = <<"a">>
    /\ history[2].op = "insertIfNotExistsMany" /\ history[2].items[1][1] = <<"a", "b">>
    /\ history[3].op = "removeIfExistsMany" /\ history[3].keys[1] = <<"a">>
    /\ history[4].op = "insertIfNotExistsMany" /\ history[4].items[1][1] = <<"a">>
    /\ \A i \in 1..4 : history[i].namespace = call.namespace
    /\ ret.value = << <<(<<"a", "b">>), Num(5)>>, <<(<<"a">>), Num(5)>> >>

\* a batch of two items under one key
NamesKeyTwice ==
    /\ call.op \in {"insertIfNotExistsMany", "updateIfExistsMany"}
    /\ Len(call.items) = 2
    /\ call.items[1][1] = call.items[2][1]

\* the call made on the adapter b: on an empty store for an insert, on a
\* store that holds the key with 10 for an update
SameCallOn(b) ==
    LET key == call.items[1][1]
        held == WriteResult(b, <<>>,
                    Call("insertIfNotExistsMany", call.namespace, <<>>,
                         << <<key, Num(10)>> >>, <<>>, NoSettings)).store
    IN WriteResult(b, IF call.op = "updateIfExistsMany" THEN held ELSE <<>>, call)

\* C31: for insertIfNotExistsMany([(k, v1), (k, v2)]) on an absent key k and
\* for updateIfExistsMany([(k, v1), (k, v2)]) on an existing key k, every
\* adapter stores the same value for k and reports the same boolean for k as
\* the memory adapter does.
C31_BackendsAgreeOnRepeatedKeys ==
    NamesKeyTwice =>
        \A b \in Backends :
            LET key == call.items[1][1]
                memory == SameCallOn("memory")
                other == SameCallOn(b)
            IN /\ other.ret.status = "resolved"
               /\ other.ret.value[key] = memory.ret.value[key]
               /\ Stored(b, other.store, call.namespace, key)
                    = Stored("memory", memory.store, call.namespace, key)

\* C32: a write made through the SQLite adapter and through the Postgres
\* adapter on the same table settles alike and leaves the same table: both
\* resolve, to the same record, and store the same value texts (numbers
\* clamped, other values as they were given).
C32_SqlAdaptersDifferOnlyInDialect ==
    (backend # "memory"
        /\ call.op \in {"insertIfNotExistsMany", "updateIfExistsMany", "insertOrUpdateMany",
                        "removeIfExistsMany", "clear"})
    => LET sqlite == WriteResult("sqlite", prev, call)
           postgres == WriteResult("postgres", prev, call)
       IN /\ sqlite.ret.status = "resolved"
          /\ postgres.ret.status = "resolved"
          /\ postgres.ret.value = sqlite.ret.value
          /\ postgres.store = sqlite.store

FalsyValues == {Null, Num(0), Bool(FALSE), Str(<<>>)}

\* the single-key writes of the callers
PresenceWrites ==
    { Call("insertIfNotExistsMany", namespace, <<>>, << <<key, value>> >>, <<>>, NoSettings) :
        namespace \in Namespaces, key \in Keys, value \in FalsyValues }
    \cup { Call("updateIfExistsMany", namespace, <<>>, << <<key, Num(10)>> >>, <<>>, NoSettings) :
             namespace \in Namespaces, key \in Keys }
    \cup { Call("removeIfExistsMany", namespace, <<key>>, <<>>, <<>>, NoSettings) :
             namespace \in Namespaces, key \in Keys }

\* the reads of the callers
PresenceReads ==
    { Call(op, namespace, <<>>, <<>>, <<>>, NoSettings) :
        op \in {"size", "asyncIterator"}, namespace \in Namespaces }
    \cup { Call("getMany", namespace, <<key>>, <<>>, <<>>, NoSettings) :
             namespace \in Namespaces, key \in Keys }

PresenceInit ==
    /\ backend \in Backends
    /\ map = <<>>
    /\ table = <<>>
    /\ call = Idle
    /\ fn = NoFn
    /\ prev = <<>>
    /\ ret = Resolved(<<>>)
    /\ cursor = 0
    /\ queries = 0
    /\ seen = NotSeen
    /\ stream = "none"
    /\ history = <<>>

\* insertIfNotExistsMany / updateIfExistsMany / removeIfExistsMany of one key
presenceWrite ==
    /\ \E c \in PresenceWrites :
          LET w == WriteResult(backend, Store, c)
          IN /\ Len(w.store) <= MaxEntries
             /\ IF backend = "memory"
                THEN map' = w.store /\ UNCHANGED table
                ELSE table' = w.store /\ UNCHANGED map
             /\ call' = c
             /\ ret' = w.ret
    /\ prev' = Store
    /\ UNCHANGED <<backend, fn, cursor, queries, seen, stream, history>>

\* size / for await (... of storage) / getMany of one key
presenceRead ==
    /\ \E c \in PresenceReads :
          /\ call' = c
          /\ ret' = Resolved(ReadResult(backend, Store, c))
    /\ prev' = Store
    /\ UNCHANGED <<backend, map, table, fn, cursor, queries, seen, stream, history>>

PresenceNext ==
    \/ presenceWrite
    \/ presenceRead

PresenceSpec == PresenceInit /\ [][PresenceNext]_vars

\* the keys of the bound namespace that held null, 0, false or "" before the call
HeldFalsy ==
    {key \in Keys : \E text \in StoredBefore(key) : JSONparse(text) \in FalsyValues}

\* C34: a key stored with null, 0, false or "" exists: insertIfNotExistsMany
\* reports false and keeps the value, updateIfExistsMany and
\* removeIfExistsMany report true, size counts the key, the iteration yields
\* it, and getMany returns the stored value itself.
C34_FalsyValuesExist ==
    \A key \in HeldFalsy :
        LET value == JSONparse(CHOOSE text \in StoredBefore(key) : TRUE)
            named == key \in Range(call.keys) \cup CallKeys
        IN /\ ret.status = "resolved"
           /\ (call.op = "insertIfNotExistsMany" /\ named)
                  => ret.value[key] = FALSE /\ StoredAfter(key) = StoredBefore(key)
           /\ (call.op \in {"updateIfExistsMany", "removeIfExistsMany"} /\ named)
                  => ret.value[key] = TRUE
           /\ call.op = "size"
                  => ret.value = Cardinality(KeysOf(backend, prev, call.namespace))
           /\ call.op = "asyncIterator"
                  => \E i \in 1..Len(ret.value) : ret.value[i] = <<key, value>>
           /\ (call.op = "getMany" /\ named) => ret.value[key] = value

\* the item an iteration of the memory adapter has just yielded
Yields == ret'.status = "pending" /\ Len(ret'.value) = Len(ret.value) + 1
YieldedKeys(items) == {items[i][1] : i \in 1..Len(items)}

\* C35: in an iteration of the memory adapter that interleaves with writes to
\* the shared map, every pair (k, v) is an entry of the bound namespace with
\* the value v at the moment it is yielded, and no key is yielded twice, also
\* when it is removed and inserted again while the iteration is suspended.
C35_YieldsPresentEntriesOnce ==
    [][Yields =>
          LET item == ret'.value[Len(ret'.value)]
          IN /\ \E text \in Stored("memory", map, call.namespace, item[1]) :
                   JSONparse(text) = item[2]
             /\ item[1] \notin YieldedKeys(ret.value)]_vars

\* C36: insertIfNotExistsMany of the SQL adapters resolves to a record with
\* one entry per distinct input key; a key is mapped to true exactly when the
\* insert statement returned it, that is when no row (key, namespace) existed
\* and the row is inserted, and to false when its row already existed.
C36_SqlInsertReportsReturnedKeys ==
    (backend # "memory" /\ call.op = "insertIfNotExistsMany") =>
        /\ ret.status = "resolved"
        /\ DOMAIN ret.value = CallKeys
        /\ \A key \in CallKeys :
              /\ ret.value[key] = ~PresentBefore(key)
              /\ ret.value[key] => PresentAfter(key)
              /\ PresentBefore(key) => StoredAfter(key) = StoredBefore(key)

\* one statement inserts a key and skips a key whose row exists
C36_Witness ==
    /\ backend # "memory"
    /\ call.op = "insertIfNotExistsMany"
    /\ ret.status = "resolved"
    /\ \E inserted \in CallKeys, skipped \in CallKeys :
          /\ ret.value[inserted] = TRUE
          /\ ret.value[skipped] = FALSE
          /\ PresentBefore(skipped)

====
